---------------------------- MODULE Spec2Model ----------------------------
(***************************************************************************)
(* WebOTP: the zero-knowledge vault.  Three parts of the repository are    *)
(* modelled:                                                               *)
(*   - the blob store: PUT /api/vault, POST /api/vault/rotate-key and      *)
(*     POST /api/vault/recovery-reset, each a Drizzle transaction against  *)
(*     PostgreSQL (statements interleave as under READ COMMITTED, the      *)
(*     level db.transaction() gets when called without a configuration);   *)
(*   - the device: the vault store (vault.svelte.ts) with its debounced    *)
(*     sync, conflict handling and background sync over the local cache;   *)
(*   - the merge engine mergeVault, a pure function.                       *)
(* Timestamps are ISO strings in the code, compared as strings; they are   *)
(* naturals here (toISOString is fixed width, so the orders agree).        *)
(***************************************************************************)
EXTENDS Naturals, Sequences, FiniteSets

VARIABLES
    \* ---- server (PostgreSQL rows of the one user) ----
    vault,        \* the vault row: [exists, version, blob, wrapped]
    usr,          \* the user/account rows: [loginSalt, dataSalt, hash]
    sessions,     \* the clients holding a session row
    userLock,     \* the request whose transaction holds the user row lock, or NoReq
    tx,           \* per request slot: the request in flight and the handler's position
    \* ---- device (vaultState, cryptoState, IndexedDB) ----
    accounts,     \* vaultState.accounts
    baseSnapshot, \* vaultState.baseSnapshot
    syncStatus,   \* vaultState.syncStatus
    lastVersion,  \* vaultState.lastVersion
    dek,          \* cryptoState.dek (NoKey when locked)
    cache,        \* the "vault" object store of IndexedDB: [present, blob, version, wrapped]
    timer,        \* the debounce timer of debouncedSync is armed
    syncPc,       \* per request slot: position of a sync() call: "idle", "put", "conflict"
    remote,       \* per request slot: the GET /api/vault answer handleConflict waits on
    bgPc,         \* position of backgroundSync(): "idle", "get"
    bgRemote,     \* the GET /api/vault answer backgroundSync waits on
    ivs,          \* per client: how many IVs and request tokens it has drawn
    \* ---- device session (cryptoState, auto-lock, auth params) ----
    isUnlocked,   \* cryptoState.isUnlocked
    lockPaused,   \* lockPaused
    lockTimeout,  \* the inactivity timer (lockTimeout) is pending
    listening,    \* the visibilitychange/mousemove/keydown listeners are installed
    params,       \* the "authParams" object store of IndexedDB
    unlockPc,     \* position of unlock(): "idle", "load" (loadVault pending)
    completed,    \* history: ids whose addAccount returned without throwing
    undecrypted,  \* history: devices whose handleConflict failed to decrypt
    \* ---- the unauthenticated lookups (auth-params, recover) ----
    userTable,    \* the rows of the user table the lookups select from
    answers,      \* history: the lookups answered so far
    \* ---- environment ----
    clock,        \* new Date(): ticks at every local mutation
    fails,        \* network failures so far
    pulls,        \* background syncs started so far
    \* ---- history ----
    accepted,     \* the accepted store writes, in commit order
    conflicts,    \* per device: version conflicts (412) it has received
    everTomb,     \* ids the store's record set has held with deletedAt set
    \* ---- merge engine, on its own ----
    mBase, mLocal, mRemote, mOut, mPc,
    \* ---- crypto engine, on its own ----
    eKind,        \* "vault" (encryptVault) or "escrow" (encryptKeyForRecovery)
    eData,        \* the input: a string (UTF-16 code units) or raw key bytes
    eKey,         \* the CryptoKey the input is encrypted under
    ePayload,     \* the EncryptedPayload: [iv, ct] in Base64
    eOut,         \* what the decrypt call returned or threw
    eSealed,      \* history: the payload as the encrypt call returned it
    eOpener,      \* history: the CryptoKey the decrypt call was given
    ePc,          \* "off", "in", "sealed", "stored", "opened"
    \* ---- CryptoKey attributes ----
    dekExtractable, \* cryptoState.dek.extractable, per device (while a key is installed)
    exportOut,    \* the last crypto.subtle.exportKey call: its result or error, the
                  \* contents of the buffer it returned (raw), and whether the
                  \* handler that made the call has returned
    \* ---- network ----
    slowNet,      \* a request's round trip may outlast the debounce delay
    netDown,      \* the network is down: fetch() rejects
    \* ---- debounce(sync, 2000), on its own, with time ----
    dbNow,        \* the time in ms
    dbTimeoutId,  \* timeoutId of the closure (0: not assigned yet)
    dbPending,    \* the timeouts the platform holds: [id, at]
    dbCalls,      \* history: the times debouncedSync() was called at
    dbFired,      \* history: the times fn (sync) was called at
    \* ---- login page ----
    relogin       \* history, per device: handleLogin ran, and the ids then unaccepted

serverVars == <<vault, usr, sessions, userLock, tx>>
deviceVars == <<accounts, baseSnapshot, syncStatus, lastVersion, dek, cache,
                timer, syncPc, remote, bgPc, bgRemote>>
envVars    == <<ivs, clock, fails, pulls>>
histVars   == <<accepted, conflicts, everTomb>>
mergeVars  == <<mBase, mLocal, mRemote, mOut, mPc>>
sessionVars == <<isUnlocked, lockPaused, lockTimeout, listening, params, unlockPc,
                 completed, undecrypted>>
probeVars  == <<userTable, answers>>
engineVars == <<eKind, eData, eKey, ePayload, eOut, eSealed, eOpener, ePc>>
keyVars    == <<dekExtractable, exportOut>>
netVars    == <<slowNet, netDown>>
debounceVars == <<dbNow, dbTimeoutId, dbPending, dbCalls, dbFired>>
loginVars  == <<relogin>>
vars       == <<serverVars, deviceVars, envVars, histVars, mergeVars, sessionVars,
                probeVars, engineVars, keyVars, netVars, debounceVars, loginVars>>

---------------------------------------------------------------------------
(* Bounds of the model *)

\* the timestamps of the merge engine's inputs are 1..MaxTime
MaxTime == 3
\* local mutations in a run (each is stamped with a fresh clock value)
MaxClock == 3
\* network failures in a run
MaxFail == 1
\* background syncs ("online", "visibilitychange") in a run
MaxPull == 1
\* sync() calls of one device awaiting the network at once; the second and
\* later slots are used only where a round trip may outlast the debounce
\* delay (slowNet)
MaxSlots == 2
\* requests an abstract store client sends in a run
MaxReq == 3

Devices == {1, 2}

Slots == 1..MaxSlots
Reqs == Devices \X Slots
NoReq == <<0, 0>>
Dev(r) == r[1]

---------------------------------------------------------------------------
(* Records (interface Account) *)

NoTime == 0     \* deletedAt absent

Acc(id, name, c, u, del) ==
    [id |-> id, name |-> name, createdAt |-> c, updatedAt |-> u, deletedAt |-> del]

SetOf(s) == {s[i] : i \in DOMAIN s}
IdsOf(s) == {s[i].id : i \in DOMAIN s}

---------------------------------------------------------------------------
(* mergeVault *)

IdList(s) == [i \in DOMAIN s |-> s[i].id]

\* the iteration order of a Set / the keys of a Map: first insertion
RECURSIVE InsertionOrder(_, _)
InsertionOrder(ids, seen) ==
    IF ids = <<>> THEN <<>>
    ELSE IF Head(ids) \in seen THEN InsertionOrder(Tail(ids), seen)
    ELSE <<Head(ids)>> \o InsertionOrder(Tail(ids), seen \cup {Head(ids)})

\* allIds as an array instead of a Set: every id as often as it is given
allIdsRepeated(base, local, rem) == IdList(base) \o IdList(local) \o IdList(rem)

allIds(base, local, rem) ==
    InsertionOrder(IdList(base) \o IdList(local) \o IdList(rem), {})

\* Map.get after forEach(a => map.set(a.id, a)): the last record with the id
MapHas(s, id) == \E i \in DOMAIN s : s[i].id = id
MapGet(s, id) ==
    s[CHOOSE i \in DOMAIN s : s[i].id = id /\ \A j \in DOMAIN s : s[j].id = id => j <= i]

\* localAcc?.deletedAt
DeletedAtOf(s, id) == IF MapHas(s, id) THEN MapGet(s, id).deletedAt ELSE NoTime

\* 1. Creation: the id is not in base
MergeCreation(id, local, rem) ==
    LET localAcc  == MapGet(local, id)
        remoteAcc == MapGet(rem, id)
    IN  IF MapHas(local, id) /\ MapHas(rem, id)
        THEN LET latest == IF localAcc.updatedAt > remoteAcc.updatedAt
                           THEN localAcc ELSE remoteAcc
             IN  IF latest.deletedAt = NoTime THEN <<latest>> ELSE <<>>
        ELSE IF MapHas(local, id)
        THEN IF localAcc.deletedAt = NoTime THEN <<localAcc>> ELSE <<>>
        ELSE IF MapHas(rem, id)
        THEN IF remoteAcc.deletedAt = NoTime THEN <<remoteAcc>> ELSE <<>>
        ELSE <<>>

\* 2. Deletion: local or remote carries deletedAt
MergeDeletion(id, local, rem) ==
    LET localDeleted  == DeletedAtOf(local, id)
        remoteDeleted == DeletedAtOf(rem, id)
    IN  IF localDeleted # NoTime /\ remoteDeleted # NoTime
        THEN <<IF localDeleted > remoteDeleted THEN MapGet(local, id) ELSE MapGet(rem, id)>>
        ELSE IF localDeleted # NoTime THEN <<MapGet(local, id)>> ELSE <<MapGet(rem, id)>>

\* the deletion test of the loop: if (localDeleted || remoteDeleted)
IsDeletedLocalOnly(id, local, rem) == DeletedAtOf(local, id) # NoTime

IsDeleted(id, local, rem) ==
    DeletedAtOf(local, id) # NoTime \/ DeletedAtOf(rem, id) # NoTime

\* 3. Modification
MergeModificationLocalFirst(id, base, local, rem) ==
    LET baseAcc    == MapGet(base, id)
        baseTime   == baseAcc.updatedAt
        localTime  == IF MapHas(local, id) THEN MapGet(local, id).updatedAt ELSE baseTime
        remoteTime == IF MapHas(rem, id) THEN MapGet(rem, id).updatedAt ELSE baseTime
    IN  IF ~MapHas(local, id)
        THEN IF MapHas(rem, id) THEN <<MapGet(rem, id)>> ELSE <<>>
        ELSE IF localTime > baseTime THEN <<MapGet(local, id)>>
        ELSE IF remoteTime > baseTime THEN <<MapGet(rem, id)>>
        ELSE <<baseAcc>>

MergeModification(id, base, local, rem) ==
    LET baseAcc    == MapGet(base, id)
        baseTime   == baseAcc.updatedAt
        localTime  == IF MapHas(local, id) THEN MapGet(local, id).updatedAt ELSE baseTime
        remoteTime == IF MapHas(rem, id) THEN MapGet(rem, id).updatedAt ELSE baseTime
    IN  IF ~MapHas(local, id)
        THEN IF MapHas(rem, id) THEN <<MapGet(rem, id)>> ELSE <<>>
        ELSE IF localTime > baseTime /\ remoteTime > baseTime
        THEN <<IF localTime > remoteTime THEN MapGet(local, id) ELSE MapGet(rem, id)>>
        ELSE IF localTime > baseTime THEN <<MapGet(local, id)>>
        ELSE IF remoteTime > baseTime THEN <<MapGet(rem, id)>>
        ELSE <<baseAcc>>

\* one iteration of `for (const id of allIds)`: what it pushes to merged
MergeId(id, base, local, rem) ==
    IF ~MapHas(base, id) THEN MergeCreation(id, local, rem)
    ELSE IF IsDeleted(id, local, rem) THEN MergeDeletion(id, local, rem)
    ELSE MergeModification(id, base, local, rem)

RECURSIVE MergeLoop(_, _, _, _)
MergeLoop(ids, base, local, rem) ==
    IF ids = <<>> THEN <<>>
    ELSE MergeId(Head(ids), base, local, rem) \o MergeLoop(Tail(ids), base, local, rem)

mergeVault(base, local, rem) == MergeLoop(allIds(base, local, rem), base, local, rem)

---------------------------------------------------------------------------
(* Vault codec: encryptVault, decryptVault and the blob text *)

NoKey == 0
InitKey == 1

\* a fresh token of client c (an IV, a new LAK, new salts ...)
Token(c, n) == c * 100 + n

\* AES-GCM under dek with a fresh iv; the tag binds key, iv and plaintext
encryptVault(data, k, iv) ==
    [iv |-> iv, ct |-> [key |-> k, iv |-> iv, data |-> data]]

\* `v=1;iv=${payload.iv};ct=${payload.ct}`
BlobText(payload) == [v |-> 1, iv |-> payload.iv, ct |-> payload.ct]

\* blob.split(";"), the iv= and ct= parts
parseEncryptedPayload(blob) == [iv |-> blob.iv, ct |-> blob.ct]

\* crypto.subtle.decrypt succeeds: same key, and the iv the tag was made with
DecryptOk(payload, k) == payload.ct.key = k /\ payload.ct.iv = payload.iv /\ k # NoKey
decryptVault(payload, k) == payload.ct.data

\* encryptedBlob: null
NoBlob == [v |-> 0, iv |-> 0, ct |-> [key |-> NoKey, iv |-> 0, data |-> <<>>]]

\* the record set inside a blob
DataOf(blob) == blob.ct.data

\* ids a record set holds with deletedAt set
Tombstones(s) == {s[i].id : i \in {j \in DOMAIN s : s[j].deletedAt # NoTime}}
LiveIds(s) == {s[i].id : i \in {j \in DOMAIN s : s[j].deletedAt = NoTime}}

---------------------------------------------------------------------------
(* The blob store: the handlers' transactions *)

NoTx == [kind |-> "none", pc |-> "none", version |-> 0, blob |-> NoBlob,
         wrapped |-> 0, oldLak |-> 0, secret |-> 0, email |-> 0,
         seen |-> 0, status |-> 0, retVersion |-> 0]

Respond(t, st) == [t EXCEPT !.pc = "done", !.status = st]

\* a committed write, as the history keeps it
Write(r, t, newVersion) ==
    [client |-> r, kind |-> t.kind, claimed |-> t.version, blob |-> t.blob,
     before |-> vault.version, after |-> newVersion]

NoteStore(newVault) == everTomb' = everTomb \cup Tombstones(DataOf(newVault.blob))

\* PUT: the version the update writes (version: version + 1)
PutNewVersion(t) == t.version + 1

\* PUT: if (currentVersion !== version) throw error(412)
PutVersionMatchesAlways(t) == TRUE

PutVersionMatches(t) == vault.version = t.version

\* PUT, up to and including the transaction's select and its checks
PutSelect(r) ==
    /\ tx[r].kind = "put" /\ tx[r].pc = "sent"
    /\ tx' = [tx EXCEPT ![r] =
          IF Dev(r) \notin sessions THEN Respond(@, 401)
          ELSE IF @.blob = NoBlob THEN Respond(@, 400)
          ELSE IF ~vault.exists
               THEN IF @.version # 0 \/ @.wrapped = 0 THEN Respond(@, 400)
                    ELSE [@ EXCEPT !.pc = "read", !.seen = 0]
          ELSE IF ~PutVersionMatches(@) THEN Respond(@, 412)
          ELSE [@ EXCEPT !.pc = "read", !.seen = vault.version]]
    /\ UNCHANGED <<vault, usr, sessions, userLock>>
    /\ UNCHANGED <<deviceVars, envVars, histVars, mergeVars, probeVars, engineVars, keyVars, netVars, debounceVars, loginVars, sessionVars>>

\* PUT, the insert or update, its commit and the answer
PutUpdate(r) ==
    /\ tx[r].kind = "put" /\ tx[r].pc = "read"
    /\ LET t == tx[r] IN
       IF t.seen = 0
       THEN \* Case 1: creation; a row inserted meanwhile violates the primary key
            IF vault.exists
            THEN /\ tx' = [tx EXCEPT ![r] = Respond(@, 500)]
                 /\ UNCHANGED <<vault, accepted, everTomb>>
            ELSE /\ vault' = [exists |-> TRUE, version |-> 1, blob |-> t.blob,
                              wrapped |-> t.wrapped]
                 /\ tx' = [tx EXCEPT ![r] = [Respond(@, 200) EXCEPT !.retVersion = 1]]
                 /\ accepted' = Append(accepted, Write(r, t, 1))
                 /\ NoteStore(vault')
       ELSE \* Case 2: update ... where userId = ?
            /\ vault' = [vault EXCEPT !.blob = t.blob,
                                      !.version = PutNewVersion(t),
                                      !.wrapped = IF t.wrapped # 0 THEN t.wrapped ELSE @]
            /\ tx' = [tx EXCEPT ![r] =
                        [Respond(@, 200) EXCEPT !.retVersion = vault'.version]]
            /\ accepted' = Append(accepted, Write(r, t, vault'.version))
            /\ NoteStore(vault')
    /\ UNCHANGED <<usr, sessions, userLock, conflicts>>
    /\ UNCHANGED <<deviceVars, envVars, mergeVars, probeVars, engineVars, keyVars, netVars, debounceVars, loginVars, sessionVars>>

\* rotate-key, step 1: verify the old LAK against the stored hash
RotateVerify(r) ==
    /\ tx[r].kind = "rotate" /\ tx[r].pc = "sent"
    /\ tx' = [tx EXCEPT ![r] =
          IF Dev(r) \notin sessions THEN Respond(@, 401)
          ELSE IF @.blob = NoBlob \/ @.wrapped = 0 THEN Respond(@, 400)
          ELSE IF @.oldLak # usr.hash THEN Respond(@, 403)
          ELSE [@ EXCEPT !.pc = "verified"]]
    /\ UNCHANGED <<vault, usr, sessions, userLock>>
    /\ UNCHANGED <<deviceVars, envVars, histVars, mergeVars, probeVars, engineVars, keyVars, netVars, debounceVars, loginVars, sessionVars>>

\* rotate-key, steps 2-4a: update user and account (the user row is locked
\* from here to the end of the transaction), select the vault, check it
RotateSelect(r) ==
    /\ tx[r].kind = "rotate" /\ tx[r].pc = "verified"
    /\ userLock = NoReq
    /\ IF ~vault.exists
       THEN tx' = [tx EXCEPT ![r] = Respond(@, 404)] /\ UNCHANGED userLock
       ELSE IF vault.version # tx[r].version
       THEN tx' = [tx EXCEPT ![r] = Respond(@, 412)] /\ UNCHANGED userLock
       ELSE /\ tx' = [tx EXCEPT ![r] = [@ EXCEPT !.pc = "read", !.seen = vault.version]]
            /\ userLock' = r
    /\ UNCHANGED <<vault, usr, sessions>>
    /\ UNCHANGED <<deviceVars, envVars, histVars, mergeVars, probeVars, engineVars, keyVars, netVars, debounceVars, loginVars, sessionVars>>

\* rotate-key, steps 4b-5 and the commit
RotateCommit(r) ==
    /\ tx[r].kind = "rotate" /\ tx[r].pc = "read"
    /\ LET t == tx[r] IN
       /\ usr' = [loginSalt |-> t.secret, dataSalt |-> t.secret, hash |-> t.secret]
       /\ vault' = [vault EXCEPT !.blob = t.blob, !.wrapped = t.wrapped,
                                 !.version = t.version + 1]
       /\ sessions' = sessions \cap {Dev(r)}
       /\ accepted' = Append(accepted, Write(r, t, vault'.version))
       /\ NoteStore(vault')
    /\ userLock' = NoReq
    /\ tx' = [tx EXCEPT ![r] = Respond(@, 200)]
    /\ UNCHANGED conflicts
    /\ UNCHANGED <<deviceVars, envVars, mergeVars, probeVars, engineVars, keyVars, netVars, debounceVars, loginVars, sessionVars>>

\* recovery-reset, steps 1-4a: find the user, update user and account, select
\* the vault's version
ResetSelect(r) ==
    /\ tx[r].kind = "reset" /\ tx[r].pc = "sent"
    /\ IF tx[r].blob = NoBlob \/ tx[r].wrapped = 0
       THEN tx' = [tx EXCEPT ![r] = Respond(@, 400)] /\ UNCHANGED userLock
       ELSE IF tx[r].email = 0
       THEN tx' = [tx EXCEPT ![r] = Respond(@, 404)] /\ UNCHANGED userLock
       ELSE /\ userLock = NoReq
            /\ userLock' = r
            /\ tx' = [tx EXCEPT ![r] =
                  [@ EXCEPT !.pc = "read",
                            !.seen = IF vault.exists THEN vault.version ELSE 0]]
    /\ UNCHANGED <<vault, usr, sessions>>
    /\ UNCHANGED <<deviceVars, envVars, histVars, mergeVars, probeVars, engineVars, keyVars, netVars, debounceVars, loginVars, sessionVars>>

\* recovery-reset, steps 4b-5 and the commit
ResetCommit(r) ==
    /\ tx[r].kind = "reset" /\ tx[r].pc = "read"
    /\ LET t == tx[r] IN
       /\ usr' = [loginSalt |-> t.secret, dataSalt |-> t.secret, hash |-> t.secret]
       /\ IF vault.exists
          THEN /\ vault' = [vault EXCEPT !.blob = t.blob, !.wrapped = t.wrapped,
                                         !.version = t.seen + 1]
               /\ accepted' = Append(accepted, Write(r, t, vault'.version))
               /\ NoteStore(vault')
          ELSE UNCHANGED <<vault, accepted, everTomb>>
    /\ sessions' = {}
    /\ userLock' = NoReq
    /\ tx' = [tx EXCEPT ![r] = Respond(@, 200)]
    /\ UNCHANGED conflicts
    /\ UNCHANGED <<deviceVars, envVars, mergeVars, probeVars, engineVars, keyVars, netVars, debounceVars, loginVars, sessionVars>>

\* GET /api/vault: one select
GetVault ==
    IF vault.exists
    THEN [blob |-> vault.blob, version |-> vault.version, wrapped |-> vault.wrapped]
    ELSE [blob |-> NoBlob, version |-> 0, wrapped |-> 0]

\* fetch("/api/vault") of device d: 401 without a session, else the row
FetchVault(d) ==
    IF d \notin sessions
    THEN [blob |-> NoBlob, version |-> 0, wrapped |-> 0, status |-> 401]
    ELSE [blob |-> GetVault.blob, version |-> GetVault.version,
          wrapped |-> GetVault.wrapped, status |-> 200]

---------------------------------------------------------------------------
(* Initial states *)

\* what registration leaves: the vault row at version 1 holding the empty
\* record set encrypted under the DEK, and a session per signed-in client
InitBlob == BlobText(encryptVault(<<>>, InitKey, 1))

InitServer ==
    /\ vault = [exists |-> TRUE, version |-> 1, blob |-> InitBlob, wrapped |-> 1]
    /\ usr = [loginSalt |-> 1, dataSalt |-> 1, hash |-> 1]
    /\ sessions = Devices
    /\ userLock = NoReq
    /\ tx = [r \in Reqs |-> NoTx]

NoRemote == [blob |-> NoBlob, version |-> 0, wrapped |-> 0, status |-> 0]

\* a device after login and unlock: loadVault has decrypted the cached blob
InitDevices ==
    /\ accounts = [d \in Devices |-> <<>>]
    /\ baseSnapshot = [d \in Devices |-> <<>>]
    /\ syncStatus = [d \in Devices |-> "idle"]
    /\ lastVersion = [d \in Devices |-> 1]
    /\ dek = [d \in Devices |-> InitKey]
    /\ cache = [d \in Devices |->
                  [present |-> TRUE, blob |-> InitBlob, version |-> 1, wrapped |-> 1]]
    /\ timer = [d \in Devices |-> FALSE]
    /\ syncPc = [r \in Reqs |-> "idle"]
    /\ remote = [r \in Reqs |-> NoRemote]
    /\ bgPc = [d \in Devices |-> "idle"]
    /\ bgRemote = [d \in Devices |-> NoRemote]

InitEnv ==
    /\ ivs = [c \in Devices |-> 0]
    /\ clock = 0
    /\ fails = 0
    /\ pulls = 0

InitHist ==
    /\ accepted = <<>>
    /\ conflicts = [d \in Devices |-> 0]
    /\ everTomb = {}

\* unlocked with the listeners installed and the inactivity timer running;
\* the auth params of the login are in the cache
InitSession ==
    /\ isUnlocked = [d \in Devices |-> TRUE]
    /\ lockPaused = [d \in Devices |-> FALSE]
    /\ lockTimeout = [d \in Devices |-> TRUE]
    /\ listening = [d \in Devices |-> TRUE]
    /\ params = [d \in Devices |-> [present |-> TRUE, loginSalt |-> 1, dataSalt |-> 1]]
    /\ unlockPc = [d \in Devices |-> "idle"]
    /\ completed = [d \in Devices |-> {}]
    /\ undecrypted = {}

\* no lookup made yet; the user table holds the registered user
InitProbe ==
    /\ userTable = {[email |-> "a", loginSalt |-> 1, dataSalt |-> 1,
                     kdfIterations |-> 600000, hasVault |-> TRUE]}
    /\ answers = <<>>

InitMergeOff ==
    /\ mBase = <<>> /\ mLocal = <<>> /\ mRemote = <<>> /\ mOut = <<>>
    /\ mPc = "off"

NoPayload == [iv |-> <<>>, ct |-> <<>>]
NoOut == [status |-> "none", value |-> <<>>, error |-> ""]
NoCryptoKey == [id |-> 0, extractable |-> FALSE, usages |-> {}]

NoExport == [status |-> "none", raw |-> 0, installed |-> FALSE, explicit |-> FALSE,
             returned |-> FALSE]

\* a request is answered before the debounce timer can fire again
InitNet == slowNet = FALSE /\ netDown = FALSE

\* handleLogin has not run again
InitLogin == relogin = [d \in Devices |-> [done |-> FALSE, ids |-> {}]]

\* no debouncedSync() call yet
InitDebounce ==
    /\ dbNow = 0
    /\ dbTimeoutId = 0
    /\ dbPending = {}
    /\ dbCalls = <<>>
    /\ dbFired = <<>>

\* the key the login page's unlock installed is the one unlock derives
InitKeys ==
    /\ dekExtractable = [d \in Devices |-> FALSE]
    /\ exportOut = NoExport

InitEngineOff ==
    /\ eKind = "vault" /\ eData = <<>> /\ eKey = NoCryptoKey
    /\ ePayload = NoPayload /\ eOut = NoOut /\ ePc = "off"
    /\ eSealed = NoPayload /\ eOpener = NoCryptoKey

---------------------------------------------------------------------------
(* The merge engine on its own: every input triple within the bounds *)

Names == {"A", "B"}

\* records as the mutations leave them: deletedAt, when set, is not later
\* than updatedAt (deleteAccount stamps both; a later edit moves updatedAt on)
MergeRecs ==
    {Acc(1, n, 1, u, del) : n \in Names, u \in 1..MaxTime, del \in 0..MaxTime}

MergeOther == Acc(2, "A", 1, 1, NoTime)

MergeInputs ==
    {s1 \o s2 : s1 \in {<<>>} \cup {<<r>> : r \in {q \in MergeRecs : q.deletedAt <= q.updatedAt}},
                s2 \in {<<>>, <<MergeOther>>}}

InitMerge ==
    /\ InitServer /\ InitDevices /\ InitEnv /\ InitHist /\ InitSession /\ InitProbe
    /\ InitEngineOff /\ InitKeys /\ InitNet /\ InitDebounce /\ InitLogin
    /\ mBase \in MergeInputs
    /\ mLocal \in MergeInputs
    /\ mRemote \in MergeInputs
    /\ mOut = <<>>
    /\ mPc = "in"

Merge ==
    /\ mPc = "in"
    /\ mOut' = mergeVault(mBase, mLocal, mRemote)
    /\ mPc' = "out"
    /\ UNCHANGED <<mBase, mLocal, mRemote>>
    /\ UNCHANGED <<serverVars, deviceVars, envVars, histVars, sessionVars, probeVars, engineVars, keyVars, netVars, debounceVars, loginVars>>

NextMerge == Merge

SpecMerge == InitMerge /\ [][NextMerge]_vars

---------------------------------------------------------------------------
(* The blob store on its own: clients that send any request *)

NewBlob(c, k) == BlobText(encryptVault(<<>>, k, Token(c, ivs[c] + 1)))

RECURSIVE SumOver(_, _)
SumOver(f, S) ==
    IF S = {} THEN 0
    ELSE LET x == CHOOSE y \in S : TRUE IN f[x] + SumOver(f, S \ {x})

\* requests sent so far
Sent == SumOver(ivs, Devices)

\* the versions a client may claim: the stored one, one behind, one ahead
Claims == {v \in 0..(vault.version + 1) : v + 1 >= vault.version}

ClientPut(c) ==
    /\ tx[<<c, 1>>] = NoTx /\ Sent < MaxReq
    /\ \E v \in Claims, w \in {0, Token(c, ivs[c] + 1)} :
         tx' = [tx EXCEPT ![<<c, 1>>] = [NoTx EXCEPT !.kind = "put", !.pc = "sent",
                                              !.version = v, !.wrapped = w,
                                              !.blob = NewBlob(c, InitKey)]]
    /\ ivs' = [ivs EXCEPT ![c] = @ + 1]
    /\ UNCHANGED <<vault, usr, sessions, userLock, clock, fails, pulls>>
    /\ UNCHANGED <<deviceVars, histVars, mergeVars, probeVars, engineVars, keyVars, netVars, debounceVars, loginVars, sessionVars>>

ClientRotate(c) ==
    /\ tx[<<c, 1>>] = NoTx /\ Sent < MaxReq
    /\ \E v \in Claims, lak \in {0, usr.hash} :
         tx' = [tx EXCEPT ![<<c, 1>>] = [NoTx EXCEPT !.kind = "rotate", !.pc = "sent",
                                              !.version = v, !.oldLak = lak,
                                              !.secret = Token(c, ivs[c] + 1),
                                              !.wrapped = Token(c, ivs[c] + 1),
                                              !.blob = NewBlob(c, Token(c, ivs[c] + 1))]]
    /\ ivs' = [ivs EXCEPT ![c] = @ + 1]
    /\ UNCHANGED <<vault, usr, sessions, userLock, clock, fails, pulls>>
    /\ UNCHANGED <<deviceVars, histVars, mergeVars, probeVars, engineVars, keyVars, netVars, debounceVars, loginVars, sessionVars>>

ClientReset(c) ==
    /\ tx[<<c, 1>>] = NoTx /\ Sent < MaxReq
    /\ \E e \in {0, 1} :
         tx' = [tx EXCEPT ![<<c, 1>>] = [NoTx EXCEPT !.kind = "reset", !.pc = "sent",
                                              !.email = e,
                                              !.secret = Token(c, ivs[c] + 1),
                                              !.wrapped = Token(c, ivs[c] + 1),
                                              !.blob = NewBlob(c, Token(c, ivs[c] + 1))]]
    /\ ivs' = [ivs EXCEPT ![c] = @ + 1]
    /\ UNCHANGED <<vault, usr, sessions, userLock, clock, fails, pulls>>
    /\ UNCHANGED <<deviceVars, histVars, mergeVars, probeVars, engineVars, keyVars, netVars, debounceVars, loginVars, sessionVars>>

\* the client takes the answer
ClientReceive(c) ==
    /\ tx[<<c, 1>>].pc = "done"
    /\ tx' = [tx EXCEPT ![<<c, 1>>] = NoTx]
    /\ UNCHANGED <<vault, usr, sessions, userLock>>
    /\ UNCHANGED <<deviceVars, envVars, histVars, mergeVars, probeVars, engineVars, keyVars, netVars, debounceVars, loginVars, sessionVars>>

\* sign-in (Better Auth): a new session row
ClientLogin(c) ==
    /\ c \notin sessions
    /\ sessions' = sessions \cup {c}
    /\ UNCHANGED <<vault, usr, userLock, tx>>
    /\ UNCHANGED <<deviceVars, envVars, histVars, mergeVars, probeVars, engineVars, keyVars, netVars, debounceVars, loginVars, sessionVars>>

StoreHandlers ==
    \E r \in Reqs :
        \/ PutSelect(r) \/ PutUpdate(r)
        \/ RotateVerify(r) \/ RotateSelect(r) \/ RotateCommit(r)
        \/ ResetSelect(r) \/ ResetCommit(r)

InitProgram ==
    /\ InitServer /\ InitDevices /\ InitEnv /\ InitHist /\ InitMergeOff /\ InitSession
    /\ InitProbe /\ InitEngineOff /\ InitKeys

InitAll == InitProgram /\ InitNet /\ InitDebounce /\ InitLogin

NextStore ==
    \/ \E c \in Devices : ClientPut(c) \/ ClientRotate(c) \/ ClientReset(c)
                          \/ ClientReceive(c) \/ ClientLogin(c)
    \/ StoreHandlers

SpecStore == InitAll /\ [][NextStore]_vars

---------------------------------------------------------------------------
(* The device: vault.svelte.ts, its mutations and its synchronisation *)

\* getLocalVault()?.encryptedDekByRecoveryKey || null
CachedWrapped(d) == IF cache[d].present THEN cache[d].wrapped ELSE 0

\* saveVault without the cache write
saveVaultUncached(d, accs, ver) ==
    IF dek[d] = NoKey
    THEN UNCHANGED <<cache, syncStatus, timer, ivs>>
    ELSE /\ cache' = cache
         /\ syncStatus' = [syncStatus EXCEPT ![d] = "dirty"]
         /\ timer' = [timer EXCEPT ![d] = TRUE]
         /\ ivs' = [ivs EXCEPT ![d] = @ + 1]

\* saveVault(): without a DEK throw the vault-locked error; otherwise encrypt
\* the records in memory, write the blob to the cache under the last known
\* version, mark dirty, (re)arm the debounce timer
saveVault(d, accs, ver) ==
    IF dek[d] = NoKey
    THEN UNCHANGED <<cache, syncStatus, timer, ivs>>
    ELSE /\ cache' = [cache EXCEPT ![d] =
               [present |-> TRUE,
                blob |-> BlobText(encryptVault(accs, dek[d], Token(d, ivs[d] + 1))),
                version |-> ver,
                wrapped |-> CachedWrapped(d)]]
         /\ syncStatus' = [syncStatus EXCEPT ![d] = "dirty"]
         /\ timer' = [timer EXCEPT ![d] = TRUE]
         /\ ivs' = [ivs EXCEPT ![d] = @ + 1]

\* vaultState.accounts.findIndex((a) => a.id === id)
findIndex(s, id) ==
    IF MapHas(s, id) THEN CHOOSE i \in DOMAIN s :
                               s[i].id = id /\ \A j \in DOMAIN s : s[j].id = id => i <= j
    ELSE 0

OtherName(n) == IF n = "A" THEN "B" ELSE "A"

\* what the three mutations leave alone
MutationFrame ==
    /\ UNCHANGED <<baseSnapshot, lastVersion, dek, syncPc, remote, bgPc, bgRemote>>
    /\ UNCHANGED <<serverVars, fails, pulls, histVars, mergeVars, probeVars, engineVars, keyVars, netVars, debounceVars, loginVars>>
    /\ UNCHANGED <<isUnlocked, lockPaused, lockTimeout, listening, params, unlockPc,
                   undecrypted>>

\* addAccount: a fresh id, createdAt = updatedAt = now, push, saveVault
addAccount(d) ==
    /\ clock < MaxClock
    /\ clock' = clock + 1
    /\ completed' = [completed EXCEPT ![d] =
                        IF dek[d] = NoKey THEN @ ELSE @ \cup {clock + 1}]
    /\ LET newAccount == Acc(clock + 1, "A", clock + 1, clock + 1, NoTime)
           accs == Append(accounts[d], newAccount)
       IN /\ accounts' = [accounts EXCEPT ![d] = accs]
          /\ saveVault(d, accs, lastVersion[d])
    /\ MutationFrame

\* updateAccount: the record's fields replaced, updatedAt = now, saveVault
\* (the edit page offers only records without deletedAt)
updateAccount(d, id) ==
    /\ clock < MaxClock
    /\ id \in LiveIds(accounts[d])
    /\ clock' = clock + 1
    /\ UNCHANGED completed
    /\ LET index == findIndex(accounts[d], id)
           accs == [accounts[d] EXCEPT ![index] =
                       [@ EXCEPT !.name = OtherName(@), !.updatedAt = clock + 1]]
       IN /\ accounts' = [accounts EXCEPT ![d] = accs]
          /\ saveVault(d, accs, lastVersion[d])
    /\ MutationFrame

\* deleteAccount taking the record out of the array
deleteAccountHard(d, id) ==
    /\ clock < MaxClock
    /\ id \in LiveIds(accounts[d])
    /\ clock' = clock + 1
    /\ UNCHANGED completed
    /\ LET accs == SelectSeq(accounts[d], LAMBDA a : a.id # id)
       IN /\ accounts' = [accounts EXCEPT ![d] = accs]
          /\ saveVault(d, accs, lastVersion[d])
    /\ MutationFrame

\* deleteAccount: deletedAt = updatedAt = now, saveVault
deleteAccount(d, id) ==
    /\ clock < MaxClock
    /\ id \in LiveIds(accounts[d])
    /\ clock' = clock + 1
    /\ UNCHANGED completed
    /\ LET index == findIndex(accounts[d], id)
           accs == [accounts[d] EXCEPT ![index] =
                       [@ EXCEPT !.deletedAt = clock + 1, !.updatedAt = clock + 1]]
       IN /\ accounts' = [accounts EXCEPT ![d] = accs]
          /\ saveVault(d, accs, lastVersion[d])
    /\ MutationFrame

\* the request slots of device d no sync() call is using
FreeSlots(d) == {k \in Slots : (k = 1 \/ slowNet) /\ syncPc[<<d, k>>] = "idle"}
FreeSlot(d) == CHOOSE k \in FreeSlots(d) : \A j \in FreeSlots(d) : k <= j

\* sync() past its guard: syncing, encrypt the records in memory, send the
\* PUT with the last known version
sendPut(d, r) ==
    /\ syncStatus' = [syncStatus EXCEPT ![d] = "syncing"]
    /\ tx' = [tx EXCEPT ![r] =
          [NoTx EXCEPT !.kind = "put", !.pc = "sent",
                       !.version = lastVersion[d],
                       !.blob = BlobText(encryptVault(accounts[d], dek[d],
                                                      Token(d, ivs[d] + 1)))]]
    /\ syncPc' = [syncPc EXCEPT ![r] = "put"]
    /\ ivs' = [ivs EXCEPT ![d] = @ + 1]

\* the debounce timer fires and calls sync()
TimerFire(d) ==
    /\ timer[d]
    /\ timer' = [timer EXCEPT ![d] = FALSE]
    /\ IF dek[d] = NoKey \/ syncStatus[d] = "syncing"
       THEN UNCHANGED <<syncStatus, tx, syncPc, ivs>>
       ELSE /\ FreeSlots(d) # {}
            /\ sendPut(d, <<d, FreeSlot(d)>>)
    /\ UNCHANGED <<accounts, baseSnapshot, lastVersion, dek, cache, remote, bgPc, bgRemote>>
    /\ UNCHANGED <<vault, usr, sessions, userLock, clock, fails, pulls, histVars, mergeVars, probeVars, engineVars, keyVars, netVars, debounceVars, loginVars, sessionVars>>


\* handleConflict step 5 with the comparison answering "no local changes"
hadLocalChangesNever(d) == FALSE

\* JSON.stringify(accounts) !== JSON.stringify(baseSnapshot)
hadLocalChanges(d) == accounts[d] # baseSnapshot[d]

\* handleConflict from the remote answer on: decrypt, 3-way merge, take the
\* merged set and the remote version, then adopt the remote blob or saveVault
mergeRemote(d, rem) ==
    LET remoteAccounts == decryptVault(parseEncryptedPayload(rem.blob), dek[d])
        merged == mergeVault(baseSnapshot[d], accounts[d], remoteAccounts)
    IN /\ accounts' = [accounts EXCEPT ![d] = merged]
       /\ lastVersion' = [lastVersion EXCEPT ![d] = rem.version]
       /\ baseSnapshot' = [baseSnapshot EXCEPT ![d] = merged]
       /\ IF ~hadLocalChanges(d)
          THEN /\ cache' = [cache EXCEPT ![d] =
                     [present |-> TRUE, blob |-> rem.blob, version |-> rem.version,
                      wrapped |-> IF CachedWrapped(d) # 0 THEN CachedWrapped(d)
                                  ELSE rem.wrapped]]
               /\ syncStatus' = [syncStatus EXCEPT ![d] = "idle"]
               /\ UNCHANGED <<timer, ivs>>
          ELSE saveVault(d, merged, rem.version)

\* handleConflict going on as if every remote blob decrypted
remoteDecryptsAlways(d, rem) == TRUE

\* the remote blob decrypts under the device's key
remoteDecrypts(d, rem) == DecryptOk(parseEncryptedPayload(rem.blob), dek[d])

\* what the answer to a PUT leaves alone
SyncFrame == UNCHANGED <<dek, bgPc, bgRemote, vault, usr, sessions, userLock,
                         clock, accepted, everTomb, mergeVars, probeVars, engineVars, keyVars, netVars, debounceVars, loginVars,
                         isUnlocked, lockPaused, lockTimeout, listening, params,
                         unlockPc, completed>>

\* sync() takes the answer to its PUT
PutResponse(r) ==
    /\ syncPc[r] = "put" /\ tx[r].pc = "done"
    /\ tx' = [tx EXCEPT ![r] = NoTx]
    /\ LET d == Dev(r)
           t == tx[r]
       IN IF t.status = 412
          THEN \* handleConflict(): fetch the remote vault
               /\ conflicts' = [conflicts EXCEPT ![d] = @ + 1]
               /\ IF dek[d] = NoKey
                  THEN /\ syncPc' = [syncPc EXCEPT ![r] = "idle"]
                       /\ UNCHANGED remote
                  ELSE /\ syncPc' = [syncPc EXCEPT ![r] = "conflict"]
                       /\ remote' = [remote EXCEPT ![r] = FetchVault(d)]
               /\ UNCHANGED <<accounts, baseSnapshot, syncStatus, lastVersion,
                              cache, timer>>
          ELSE IF t.status # 200
          THEN \* throw, catch: retry later
               /\ syncStatus' = [syncStatus EXCEPT ![d] = "dirty"]
               /\ syncPc' = [syncPc EXCEPT ![r] = "idle"]
               /\ UNCHANGED <<accounts, baseSnapshot, lastVersion, cache, timer,
                              remote, conflicts>>
          ELSE /\ lastVersion' = [lastVersion EXCEPT ![d] = t.retVersion]
               /\ baseSnapshot' = [baseSnapshot EXCEPT ![d] = accounts[d]]
               /\ cache' = [cache EXCEPT ![d] =
                     [present |-> TRUE, blob |-> t.blob, version |-> t.retVersion,
                      wrapped |-> CachedWrapped(d)]]
               /\ syncStatus' = [syncStatus EXCEPT ![d] = "idle"]
               /\ syncPc' = [syncPc EXCEPT ![r] = "idle"]
               /\ UNCHANGED <<accounts, timer, remote, conflicts>>
    /\ UNCHANGED <<ivs, fails, pulls, undecrypted>>
    /\ SyncFrame

\* handleConflict, called by sync(), takes the answer to its GET
ConflictResponse(r) ==
    /\ syncPc[r] = "conflict"
    /\ remote' = [remote EXCEPT ![r] = NoRemote]
    /\ LET d == Dev(r)
           rem == remote[r]
       IN IF rem.status # 200
          THEN \* if (!res.ok) throw; sync() catches
               /\ syncStatus' = [syncStatus EXCEPT ![d] = "dirty"]
               /\ syncPc' = [syncPc EXCEPT ![r] = "idle"]
               /\ UNCHANGED <<accounts, baseSnapshot, lastVersion, cache, timer,
                              tx, ivs, undecrypted>>
          ELSE IF rem.blob = NoBlob
          THEN \* await sync(): force push, unless a sync is under way
               IF dek[d] = NoKey \/ syncStatus[d] = "syncing"
               THEN /\ syncPc' = [syncPc EXCEPT ![r] = "idle"]
                    /\ UNCHANGED <<accounts, baseSnapshot, syncStatus, lastVersion,
                                   cache, timer, tx, ivs, undecrypted>>
               ELSE /\ sendPut(d, r)
                    /\ UNCHANGED <<accounts, baseSnapshot, lastVersion, cache, timer,
                                   undecrypted>>
          ELSE IF ~remoteDecrypts(d, rem)
          THEN \* decryptVault throws; sync() catches
               /\ syncStatus' = [syncStatus EXCEPT ![d] = "dirty"]
               /\ syncPc' = [syncPc EXCEPT ![r] = "idle"]
               /\ undecrypted' = undecrypted \cup {d}
               /\ UNCHANGED <<accounts, baseSnapshot, lastVersion, cache, timer,
                              tx, ivs>>
          ELSE /\ mergeRemote(d, rem)
               /\ syncPc' = [syncPc EXCEPT ![r] = "idle"]
               /\ UNCHANGED <<tx, undecrypted>>
    /\ UNCHANGED <<fails, pulls, conflicts>>
    /\ SyncFrame

\* "online" or "visibilitychange": backgroundSync() sends its GET
BackgroundSync(d) ==
    /\ pulls < MaxPull
    /\ pulls' = pulls + 1
    /\ dek[d] # NoKey
    /\ bgPc[d] = "idle"
    /\ bgPc' = [bgPc EXCEPT ![d] = "get"]
    /\ bgRemote' = [bgRemote EXCEPT ![d] = FetchVault(d)]
    /\ UNCHANGED <<accounts, baseSnapshot, syncStatus, lastVersion, dek, cache,
                   timer, syncPc, remote>>
    /\ UNCHANGED <<serverVars, ivs, clock, fails, histVars, mergeVars, probeVars, engineVars, keyVars, netVars, debounceVars, loginVars, sessionVars>>

\* backgroundSync() takes the answer and compares it with the cache
BackgroundResponse(d) ==
    /\ bgPc[d] = "get"
    /\ bgPc' = [bgPc EXCEPT ![d] = "idle"]
    /\ bgRemote' = [bgRemote EXCEPT ![d] = NoRemote]
    /\ LET rem == bgRemote[d]
       IN IF rem.status # 200 \/ ~cache[d].present
          THEN \* if (!res.ok) return; if (!localVault) return
               UNCHANGED <<accounts, baseSnapshot, syncStatus, lastVersion, cache,
                           timer, ivs, undecrypted>>
          ELSE IF rem.version > cache[d].version
          THEN \* handleConflict(remoteData); what it throws is logged
               IF dek[d] = NoKey \/ rem.blob = NoBlob
               THEN UNCHANGED <<accounts, baseSnapshot, syncStatus, lastVersion,
                                cache, timer, ivs, undecrypted>>
               ELSE IF ~remoteDecrypts(d, rem)
               THEN /\ undecrypted' = undecrypted \cup {d}
                    /\ UNCHANGED <<accounts, baseSnapshot, syncStatus, lastVersion,
                                   cache, timer, ivs>>
               ELSE mergeRemote(d, rem) /\ UNCHANGED undecrypted
          ELSE IF rem.version = cache[d].version /\ rem.blob # cache[d].blob
          THEN /\ syncStatus' = [syncStatus EXCEPT ![d] = "dirty"]
               /\ timer' = [timer EXCEPT ![d] = TRUE]
               /\ UNCHANGED <<accounts, baseSnapshot, lastVersion, cache, ivs,
                              undecrypted>>
          ELSE UNCHANGED <<accounts, baseSnapshot, syncStatus, lastVersion, cache,
                           timer, ivs, undecrypted>>
    /\ UNCHANGED <<dek, syncPc, remote>>
    /\ UNCHANGED <<serverVars, clock, fails, pulls, histVars, mergeVars, probeVars, engineVars, keyVars, netVars, debounceVars, loginVars>>
    /\ UNCHANGED <<isUnlocked, lockPaused, lockTimeout, listening, params, unlockPc,
                   completed>>

\* fetch rejects: the PUT never arrives or its answer is lost, or the GET of
\* handleConflict fails; sync() catches and leaves the vault dirty
NetFail(r) ==
    /\ fails < MaxFail
    /\ \/ syncPc[r] = "put" /\ tx[r].pc \in {"sent", "done"}
       \/ syncPc[r] = "conflict"
    /\ fails' = fails + 1
    /\ tx' = [tx EXCEPT ![r] = NoTx]
    /\ syncPc' = [syncPc EXCEPT ![r] = "idle"]
    /\ remote' = [remote EXCEPT ![r] = NoRemote]
    /\ syncStatus' = [syncStatus EXCEPT ![Dev(r)] = "dirty"]
    /\ UNCHANGED <<accounts, baseSnapshot, lastVersion, dek, cache, timer, bgPc,
                   bgRemote>>
    /\ UNCHANGED <<vault, usr, sessions, userLock, ivs, clock, pulls, histVars, mergeVars, probeVars, engineVars, keyVars, netVars, debounceVars, loginVars, sessionVars>>

---------------------------------------------------------------------------
(* The device's session: crypto.svelte.ts, unlock and loadVault, logout *)

\* the master password of the user, and a wrong one
MasterPassword == 1
Passwords == {MasterPassword, 2}

\* PBKDF2: the key is a function of the password and the salt;
\* deriveDEK(MasterPassword, 1) is the key the vault was created under
deriveDEK(pw, salt) == (pw - 1) * 10 + salt
deriveLAK(pw, salt) == (pw - 1) * 10 + salt

\* a key as deriveDEK/deriveREK returns it
DerivedKey(id, extractable) ==
    [id |-> id, extractable |-> extractable, usages |-> {"encrypt", "decrypt"}]

\* deriveDEK(masterPassword, dataSalt, iterations, extractable)
deriveDEKKey(pw, salt, extractable) == DerivedKey(deriveDEK(pw, salt), extractable)

\* a deriveDEK whose extractable parameter defaults to true
deriveDEKDefaultExportable(pw, salt) == deriveDEKKey(pw, salt, TRUE)

\* deriveDEK called without its fourth argument: extractable = false
deriveDEKDefault(pw, salt) == deriveDEKKey(pw, salt, FALSE)

\* lock() dropping the key and leaving the flag
lockKeyOnly(d) ==
    IF lockPaused[d]
    THEN UNCHANGED <<dek, isUnlocked, listening, lockTimeout>>
    ELSE /\ dek' = [dek EXCEPT ![d] = NoKey]
         /\ listening' = [listening EXCEPT ![d] = FALSE]
         /\ lockTimeout' = [lockTimeout EXCEPT ![d] = FALSE]
         /\ UNCHANGED isUnlocked


\* lock(): nothing while paused; otherwise cleanupListeners (listeners
\* removed, timer cleared), dek = null, isUnlocked = false
lock(d) ==
    IF lockPaused[d]
    THEN UNCHANGED <<dek, isUnlocked, listening, lockTimeout>>
    ELSE /\ dek' = [dek EXCEPT ![d] = NoKey]
         /\ isUnlocked' = [isUnlocked EXCEPT ![d] = FALSE]
         /\ listening' = [listening EXCEPT ![d] = FALSE]
         /\ lockTimeout' = [lockTimeout EXCEPT ![d] = FALSE]

\* what the auto-lock events leave alone
LockFrame ==
    /\ UNCHANGED <<accounts, baseSnapshot, syncStatus, lastVersion, cache, timer,
                   syncPc, remote, bgPc, bgRemote>>
    /\ UNCHANGED <<serverVars, envVars, histVars, mergeVars, probeVars, engineVars, keyVars, netVars, debounceVars, loginVars>>
    /\ UNCHANGED <<params, unlockPc, completed, undecrypted>>

\* the inactivity timer set by resetLockTimer fires
IdleTimeout(d) ==
    /\ lockTimeout[d]
    /\ IF lockPaused[d]
       THEN /\ lockTimeout' = [lockTimeout EXCEPT ![d] = FALSE]
            /\ UNCHANGED <<dek, isUnlocked, listening>>
       ELSE lock(d)
    /\ UNCHANGED lockPaused
    /\ LockFrame

\* handleVisibilityChange with visibilityState "hidden"
Hidden(d) ==
    /\ listening[d]
    /\ IF lockPaused[d]
       THEN UNCHANGED <<dek, isUnlocked, listening, lockTimeout>>
       ELSE lock(d)
    /\ UNCHANGED lockPaused
    /\ LockFrame

\* handleLock(): the lock button, shown while unlocked
ManualLock(d) ==
    /\ isUnlocked[d]
    /\ lock(d)
    /\ UNCHANGED lockPaused
    /\ LockFrame

\* openFilePicker(): pauseAutoLock(), then the file picker opens
pauseAutoLock(d) ==
    /\ isUnlocked[d] /\ ~lockPaused[d]
    /\ lockPaused' = [lockPaused EXCEPT ![d] = TRUE]
    /\ lockTimeout' = [lockTimeout EXCEPT ![d] = FALSE]
    /\ UNCHANGED <<dek, isUnlocked, listening>>
    /\ LockFrame

\* handleFilePickerClose(), run by the "change" handler of the file input:
\* resumeAutoLock() after 100 ms
resumeAutoLock(d) ==
    /\ lockPaused[d]
    /\ lockPaused' = [lockPaused EXCEPT ![d] = FALSE]
    /\ IF isUnlocked[d]
       THEN /\ listening' = [listening EXCEPT ![d] = TRUE]
            /\ lockTimeout' = [lockTimeout EXCEPT ![d] = TRUE]
       ELSE UNCHANGED <<listening, lockTimeout>>
    /\ UNCHANGED <<dek, isUnlocked>>
    /\ LockFrame

\* the key unlock() derives verifies: it decrypts the cached blob, or, with
\* no cached blob, the LAK derived from the password signs in
Verifies(d, pw) ==
    IF cache[d].present /\ cache[d].blob # NoBlob
    THEN DecryptOk(parseEncryptedPayload(cache[d].blob),
                   deriveDEK(pw, params[d].dataSalt))
    ELSE ~netDown /\ deriveLAK(pw, params[d].loginSalt) = usr.hash

\* cryptoUnlock(masterPassword), called from the unlock form (shown while
\* locked): no auth params or a key that does not verify return false; a key
\* that verifies is installed, the listeners are added, the timer is reset
Unlock(d, pw) ==
    /\ ~isUnlocked[d] /\ unlockPc[d] = "idle"
    /\ params[d].present
    /\ IF ~Verifies(d, pw)
       THEN UNCHANGED <<dek, dekExtractable, isUnlocked, listening, lockTimeout,
                        unlockPc, sessions>>
       ELSE /\ dek' = [dek EXCEPT ![d] = deriveDEKDefault(pw, params[d].dataSalt).id]
            /\ dekExtractable' = [dekExtractable EXCEPT ![d] =
                   deriveDEKDefault(pw, params[d].dataSalt).extractable]
            /\ isUnlocked' = [isUnlocked EXCEPT ![d] = TRUE]
            /\ listening' = [listening EXCEPT ![d] = TRUE]
            /\ lockTimeout' = [lockTimeout EXCEPT ![d] = ~lockPaused[d]]
            /\ unlockPc' = [unlockPc EXCEPT ![d] = "load"]
            /\ sessions' = IF cache[d].present /\ cache[d].blob # NoBlob
                           THEN sessions ELSE sessions \cup {d}
    /\ UNCHANGED <<accounts, baseSnapshot, syncStatus, lastVersion, cache, timer,
                   syncPc, remote, bgPc, bgRemote>>
    /\ UNCHANGED <<vault, usr, userLock, tx, envVars, histVars, mergeVars, probeVars, engineVars, exportOut, netVars, debounceVars, loginVars>>
    /\ UNCHANGED <<lockPaused, params, completed, undecrypted>>

\* loadVault(), the second step of unlock(): decrypt the cached blob into
\* memory (a failure empties the memory and locks), then, online, start a
\* background sync; with no cached blob the server's is fetched first, and
\* unlock() saves an empty vault when there is still none
LoadVault(d) ==
    /\ unlockPc[d] = "load"
    /\ unlockPc' = [unlockPc EXCEPT ![d] = "idle"]
    /\ LET fetched == /\ ~cache[d].present /\ ~netDown
                      /\ d \in sessions /\ GetVault.blob # NoBlob
           local == IF fetched
                    THEN [present |-> TRUE, blob |-> GetVault.blob,
                          version |-> GetVault.version, wrapped |-> GetVault.wrapped]
                    ELSE cache[d]
       IN IF dek[d] = NoKey
          THEN UNCHANGED <<accounts, baseSnapshot, syncStatus, lastVersion, cache,
                           timer, ivs, dek, isUnlocked, listening, lockTimeout,
                           bgPc, bgRemote, pulls>>
          ELSE IF ~local.present \/ local.blob = NoBlob
          THEN /\ accounts' = [accounts EXCEPT ![d] = <<>>]
               /\ lastVersion' = [lastVersion EXCEPT ![d] =
                                     IF local.present THEN local.version ELSE 0]
               /\ saveVault(d, <<>>, lastVersion'[d])
               /\ UNCHANGED <<baseSnapshot, dek, isUnlocked, listening, lockTimeout,
                              bgPc, bgRemote, pulls>>
          ELSE IF ~DecryptOk(parseEncryptedPayload(local.blob), dek[d])
          THEN /\ accounts' = [accounts EXCEPT ![d] = <<>>]
               /\ lastVersion' = [lastVersion EXCEPT ![d] = 0]
               /\ lock(d)
               /\ cache' = [cache EXCEPT ![d] = local]
               /\ UNCHANGED <<baseSnapshot, syncStatus, timer, ivs, bgPc, bgRemote,
                              pulls>>
          ELSE /\ accounts' = [accounts EXCEPT ![d] =
                                  decryptVault(parseEncryptedPayload(local.blob), dek[d])]
               /\ baseSnapshot' = [baseSnapshot EXCEPT ![d] = accounts'[d]]
               /\ lastVersion' = [lastVersion EXCEPT ![d] = local.version]
               /\ syncStatus' = [syncStatus EXCEPT ![d] = "idle"]
               /\ cache' = [cache EXCEPT ![d] = local]
               /\ \/ /\ pulls < MaxPull /\ bgPc[d] = "idle"
                     /\ pulls' = pulls + 1
                     /\ bgPc' = [bgPc EXCEPT ![d] = "get"]
                     /\ bgRemote' = [bgRemote EXCEPT ![d] = FetchVault(d)]
                  \/ UNCHANGED <<bgPc, bgRemote, pulls>>
               /\ UNCHANGED <<timer, ivs, dek, isUnlocked, listening, lockTimeout>>
    /\ UNCHANGED <<syncPc, remote, serverVars, clock, fails, histVars, mergeVars, probeVars, engineVars, keyVars, netVars, debounceVars, loginVars>>
    /\ UNCHANGED <<lockPaused, params, completed, undecrypted>>

\* logout(): sign out (the request may fail offline), clear the auth params
\* and the vault of the cache, lock(), reset the memory
Logout(d) ==
    /\ params[d].present
    /\ sessions' \in {sessions \ {d}, sessions}
    /\ params' = [params EXCEPT ![d] = [@ EXCEPT !.present = FALSE]]
    /\ cache' = [cache EXCEPT ![d] = [@ EXCEPT !.present = FALSE]]
    /\ lock(d)
    /\ accounts' = [accounts EXCEPT ![d] = <<>>]
    /\ baseSnapshot' = [baseSnapshot EXCEPT ![d] = <<>>]
    /\ lastVersion' = [lastVersion EXCEPT ![d] = 0]
    /\ syncStatus' = [syncStatus EXCEPT ![d] = "idle"]
    /\ UNCHANGED <<timer, syncPc, remote, bgPc, bgRemote>>
    /\ UNCHANGED <<vault, usr, userLock, tx, envVars, histVars, mergeVars, probeVars, engineVars, keyVars, netVars, debounceVars, loginVars>>
    /\ UNCHANGED <<lockPaused, unlockPc, completed, undecrypted>>

Mutations ==
    \E d \in Devices :
        \/ addAccount(d)
        \/ \E id \in 1..MaxClock : updateAccount(d, id) \/ deleteAccount(d, id)

Synchronisation ==
    \/ \E d \in Devices : TimerFire(d) \/ BackgroundSync(d) \/ BackgroundResponse(d)
    \/ \E r \in Reqs : \/ PutSelect(r) \/ PutUpdate(r)
                       \/ PutResponse(r) \/ ConflictResponse(r)

Next ==
    \/ Mutations
    \/ Synchronisation
    \/ \E r \in Reqs : NetFail(r)

Spec == InitAll /\ [][Next]_vars

\* nothing in flight and no timer armed
Quiescent ==
    /\ \A r \in Reqs : syncPc[r] = "idle" /\ tx[r] = NoTx
    /\ \A d \in Devices : bgPc[d] = "idle" /\ ~timer[d]

---------------------------------------------------------------------------
(* Claims about the blob store (SpecStore) *)

\* the step in which PUT's transaction selects the row and checks the version
PutChecks(r) == tx[r].kind = "put" /\ tx[r].pc = "sent" /\ tx'[r].pc # "sent"

\* C1: a PUT against an existing vault whose submitted version differs from
\* the stored version is answered 412, and the stored version, blob and
\* wrapped recovery DEK are left as they were; a PUT answered 412 is not
\* among the accepted writes.
C1_StalePutRejected ==
    [][\A r \in Reqs :
          /\ (PutChecks(r) /\ Dev(r) \in sessions /\ vault.exists
                /\ tx[r].version # vault.version)
             => (tx'[r].pc = "done" /\ tx'[r].status = 412 /\ vault' = vault)
          /\ (tx'[r].kind = "put" /\ tx'[r].status = 412)
             => \A i \in DOMAIN accepted' : accepted'[i].blob # tx'[r].blob]_vars

C1_Witness ==
    \E r \in Reqs :
        /\ tx[r].kind = "put" /\ tx[r].pc = "done" /\ tx[r].status = 412
        /\ vault.exists /\ tx[r].version # vault.version
        /\ vault = [exists |-> TRUE, version |-> 1, blob |-> InitBlob, wrapped |-> 1]

\* C2 (the claim as stated): of the accepted PUTs, no two claimed the same
\* version, so a blob accepted at version v+1 is not overwritten by another
\* write that claimed v.
C2_OneWinnerPerVersion ==
    \A i, j \in DOMAIN accepted :
        (i # j /\ accepted[i].kind = "put" /\ accepted[j].kind = "put")
            => accepted[i].claimed # accepted[j].claimed

\* C3 (the claim as stated): every accepted write takes the stored version
\* from v to v+1, so the version has risen by the number of accepted writes.
C3_VersionCountsWrites ==
    /\ \A i \in DOMAIN accepted : accepted[i].after = accepted[i].before + 1
    /\ vault.version = 1 + Len(accepted)

---------------------------------------------------------------------------
(* Claims about mergeVault (SpecMerge) *)

\* the records of s with the id
WithId(s, id) == {s[i] : i \in {j \in DOMAIN s : s[j].id = id}}

Later(a, b) == IF a > b THEN a ELSE b

\* C7: tombstone priority.  For an id in base, if local or remote carries
\* deletedAt then the merged set holds exactly one record with the id, it is
\* the tombstoned side's record whatever the other side's updatedAt, and when
\* both sides deleted it is one with the later deletedAt.
C7_TombstonePriority ==
    mPc = "out" =>
      \A id \in IdsOf(mBase) :
        LET ld == DeletedAtOf(mLocal, id)
            rd == DeletedAtOf(mRemote, id)
        IN  (ld # NoTime \/ rd # NoTime) =>
              /\ Cardinality(WithId(mOut, id)) = 1
              /\ MapGet(mOut, id).deletedAt = Later(ld, rd)
              /\ MapGet(mOut, id) \in WithId(mLocal, id) \cup WithId(mRemote, id)

\* local deleted the record at 1, remote edited it at 3: the tombstone stays
C7_Witness ==
    /\ mPc = "out"
    /\ mBase = <<Acc(1, "A", 1, 1, NoTime)>>
    /\ mLocal = <<Acc(1, "A", 1, 1, 1)>>
    /\ mRemote = <<Acc(1, "B", 1, 3, NoTime)>>
    /\ mOut = <<Acc(1, "A", 1, 1, 1)>>

\* C8: record-level last-writer-wins.  For an id that base, local and remote
\* all hold without deletedAt: local's record when only local is later than
\* base, remote's when only remote is, the strictly later side when both
\* are, the base record when neither is.
C8_LastWriterWins ==
    mPc = "out" =>
      \A id \in IdsOf(mBase) \cap IdsOf(mLocal) \cap IdsOf(mRemote) :
        LET b == MapGet(mBase, id)
            l == MapGet(mLocal, id)
            r == MapGet(mRemote, id)
            m == MapGet(mOut, id)
        IN  (b.deletedAt = NoTime /\ l.deletedAt = NoTime /\ r.deletedAt = NoTime) =>
              /\ Cardinality(WithId(mOut, id)) = 1
              /\ (l.updatedAt > b.updatedAt /\ ~(r.updatedAt > b.updatedAt)) => m = l
              /\ (r.updatedAt > b.updatedAt /\ ~(l.updatedAt > b.updatedAt)) => m = r
              /\ (l.updatedAt > b.updatedAt /\ r.updatedAt > b.updatedAt
                    /\ l.updatedAt > r.updatedAt) => m = l
              /\ (l.updatedAt > b.updatedAt /\ r.updatedAt > b.updatedAt
                    /\ r.updatedAt > l.updatedAt) => m = r
              /\ (~(l.updatedAt > b.updatedAt) /\ ~(r.updatedAt > b.updatedAt)) => m = b

\* base at t0 = 1, local at t1 = 2, remote at t2 = 3: the remote record
C8_Witness ==
    /\ mPc = "out"
    /\ mBase = <<Acc(1, "A", 1, 1, NoTime)>>
    /\ mLocal = <<Acc(1, "A", 1, 2, NoTime)>>
    /\ mRemote = <<Acc(1, "B", 1, 3, NoTime)>>
    /\ mOut = <<Acc(1, "B", 1, 3, NoTime)>>

\* local descends from base: a record of base that local still holds is the
\* base record or a later edit of it
Descends(base, local) ==
    \A id \in IdsOf(base) \cap IdsOf(local) :
        \/ MapGet(local, id) = MapGet(base, id)
        \/ MapGet(local, id).updatedAt > MapGet(base, id).updatedAt

\* C9 (the claim as stated, for local sets that descend from base): merging
\* local with itself gives local back, as a set of records.
C9_MergeIdempotent ==
    (mPc = "out" /\ mRemote = mLocal /\ Descends(mBase, mLocal))
        => SetOf(mOut) = SetOf(mLocal)

---------------------------------------------------------------------------
(* Two reconciled devices, each adding one record; no failure, no other event *)

\* the device's first mutation: it has not saved or pushed anything yet
addFirst(d) ==
    /\ ivs[d] = 0
    /\ addAccount(d)

PairSync ==
    \/ \E d \in Devices : TimerFire(d)
    \/ \E r \in Reqs : \/ PutSelect(r) \/ PutUpdate(r)
                       \/ PutResponse(r) \/ ConflictResponse(r)

NextPair ==
    \/ \E d \in Devices : addFirst(d)
    \/ PairSync

\* timers fire, the server handles what it receives, answers arrive
SpecPair == InitAll /\ [][NextPair]_vars /\ WF_vars(PairSync)

---------------------------------------------------------------------------
(* Claims about the devices (SpecPair, Spec) *)

StoreData == DataOf(vault.blob)
AllIdle == \A d \in Devices : syncStatus[d] = "idle"
SomeConflict == \E d \in Devices : conflicts[d] >= 1

C4_Converged ==
    /\ Quiescent /\ AllIdle
    /\ vault.version = 3
    /\ {1, 2} \subseteq LiveIds(StoreData)

\* C4: two reconciled devices each add a record; when one push is rejected
\* as stale, that device pulls, merges and pushes again: no second rejection
\* happens, and the run settles with the store two versions on (1 -> 3) and
\* holding both added records
C4_MergedPushAccepted ==
    /\ [](conflicts[1] + conflicts[2] <= 1)
    /\ []((SomeConflict /\ Quiescent) => C4_Converged)
    /\ (SomeConflict ~> C4_Converged)

C4_Witness == SomeConflict /\ C4_Converged

\* no two accepted writes claimed the same stored version
RaceFree ==
    \A i, j \in DOMAIN accepted : i # j => accepted[i].claimed # accepted[j].claimed

\* C5: a device whose merged push was rejected again repeats pull-merge-push,
\* so that once every device has settled (nothing in flight, no timer armed,
\* no failure, no racing writes) the store holds every record id that device
\* holds
C5_RepeatsUntilStored ==
    \A d \in Devices :
        (RaceFree /\ fails = 0 /\ Quiescent /\ AllIdle /\ conflicts[d] >= 2)
            => IdsOf(accounts[d]) \subseteq IdsOf(StoreData)

\* a device in step with the store as it is now
Reconciled(d) ==
    /\ syncStatus[d] = "idle"
    /\ lastVersion[d] = vault.version
    /\ cache[d].present /\ cache[d].blob = vault.blob

\* C6: no resurrection: an id the store has held with deletedAt set is never
\* again in the store without deletedAt, and no device reconciled with the
\* store shows it as live (here even without two writes racing on a version)
C6_NoResurrection ==
    RaceFree =>
        \A id \in everTomb :
            /\ id \notin LiveIds(StoreData)
            /\ \A d \in Devices : Reconciled(d) => id \notin LiveIds(accounts[d])

\* a step in which device d performs a local mutation
Mutates(d) == clock' = clock + 1 /\ accounts'[d] # accounts[d]

\* C10: with the vault unlocked a local mutation is possible whatever is in
\* flight or has failed, and the step that performs it leaves the mutated
\* record in memory, a cache blob that decrypts to the records in memory, and
\* syncStatus dirty, without touching the network or the store
C10_MutationIsLocal ==
    /\ [](\A d \in Devices :
            (dek[d] # NoKey /\ clock < MaxClock) =>
                /\ ENABLED addAccount(d)
                /\ \A id \in LiveIds(accounts[d]) :
                      ENABLED updateAccount(d, id) /\ ENABLED deleteAccount(d, id))
    /\ [][\A d \in Devices :
            Mutates(d) =>
                /\ \E i \in DOMAIN accounts'[d] : accounts'[d][i].updatedAt = clock'
                /\ cache'[d].present
                /\ DecryptOk(parseEncryptedPayload(cache'[d].blob), dek'[d])
                /\ decryptVault(parseEncryptedPayload(cache'[d].blob), dek'[d])
                      = accounts'[d]
                /\ syncStatus'[d] = "dirty"
                /\ tx' = tx /\ vault' = vault /\ syncPc' = syncPc]_vars

\* a mutation made after a request failed: the vault is dirty, its record is
\* in memory and in the cache, not in the store
C10_Witness ==
    \E d \in Devices :
        /\ fails = 1 /\ clock >= 2
        /\ syncStatus[d] = "dirty"
        /\ \E i \in DOMAIN accounts[d] :
              accounts[d][i].updatedAt = clock /\ accounts[d][i].id \notin IdsOf(StoreData)
        /\ DataOf(cache[d].blob) = accounts[d]

---------------------------------------------------------------------------
(* One device, no other writer: mutations, debounced syncs, lock and unlock
   with the master password (SpecSolo) *)

Solo == 1
SoloReq == <<Solo, 1>>

SoloMutations ==
    \/ addAccount(Solo)
    \/ \E id \in 1..MaxClock : updateAccount(Solo, id) \/ deleteAccount(Solo, id)

SoloSync ==
    \/ TimerFire(Solo) \/ BackgroundResponse(Solo)
    \/ PutSelect(SoloReq) \/ PutUpdate(SoloReq)
    \/ PutResponse(SoloReq) \/ ConflictResponse(SoloReq)
    \/ NetFail(SoloReq)

SoloLock ==
    \/ IdleTimeout(Solo) \/ Hidden(Solo) \/ ManualLock(Solo)
    \/ Unlock(Solo, MasterPassword) \/ LoadVault(Solo)

NextSolo == SoloMutations \/ SoloSync \/ SoloLock

SpecSolo == InitAll /\ [][NextSolo]_vars

\* unlock() has returned and the vault is open
Opened(d) == isUnlocked[d] /\ dek[d] # NoKey /\ unlockPc[d] = "idle"

\* C11: on a single device with no other writer, every record added by a
\* completed addAccount is in the device's record set whenever the vault is
\* open, in particular after the next unlock with the master password
C11_CompletedAddsSurvive == Opened(Solo) => completed[Solo] \subseteq IdsOf(accounts[Solo])

---------------------------------------------------------------------------
(* A device that mutates offline, locks and unlocks, while another device
   writes (SpecOffline) *)

Away == 1
Home == 2

\* connectivity has returned to the device that was offline
Online == fails = MaxFail

OfflineDevice ==
    \/ addFirst(Away) /\ ~Online
    \/ TimerFire(Away)
    \/ NetFail(<<Away, 1>>) /\ tx[<<Away, 1>>].pc = "sent"
    \/ Online /\ (PutSelect(<<Away, 1>>) \/ PutUpdate(<<Away, 1>>))
    \/ PutResponse(<<Away, 1>>) \/ ConflictResponse(<<Away, 1>>)
    \/ Online /\ BackgroundSync(Away)
    \/ BackgroundResponse(Away)
    \/ IdleTimeout(Away) \/ Hidden(Away) \/ ManualLock(Away)
    \/ Unlock(Away, MasterPassword)
    \/ LoadVault(Away) /\ (Online \/ bgPc' = bgPc)

OtherDevice ==
    \/ addFirst(Home) \/ TimerFire(Home)
    \/ PutSelect(<<Home, 1>>) \/ PutUpdate(<<Home, 1>>)
    \/ PutResponse(<<Home, 1>>) \/ ConflictResponse(<<Home, 1>>)

NextOffline == OfflineDevice \/ OtherDevice

SpecOffline == InitAll /\ [][NextOffline]_vars

\* the device is online, open and at rest, and its cache is the store's row:
\* no timer, request, pull or later background sync will send anything
Settled(d) ==
    /\ Online /\ Quiescent /\ Opened(d)
    /\ syncStatus[d] = "idle"
    /\ cache[d].present
    /\ cache[d].version = vault.version /\ cache[d].blob = vault.blob

\* C12: a record added while the device was offline is in the store once
\* connectivity is back, the vault is open and the device has come to rest,
\* whatever locks and unlocks happened and whatever the other device wrote
C12_OfflineAddStored == Settled(Away) => completed[Away] \subseteq IdsOf(StoreData)

---------------------------------------------------------------------------
(* A device syncing while another client rotates the key (SpecRekey) *)

Stale == 1
Rotator == 2

\* the select of GET /api/vault runs after the session was looked up for the
\* request: the row it returns is the row at that later moment
GetSelectLater(r) ==
    /\ syncPc[r] = "conflict" /\ remote[r].status = 200
    /\ remote[r] # FetchVault(Dev(r)) /\ GetVault.version > remote[r].version
    /\ remote' = [remote EXCEPT ![r] =
          [blob |-> GetVault.blob, version |-> GetVault.version,
           wrapped |-> GetVault.wrapped, status |-> 200]]
    /\ UNCHANGED <<accounts, baseSnapshot, syncStatus, lastVersion, dek, cache, timer,
                   syncPc, bgPc, bgRemote>>
    /\ UNCHANGED <<serverVars, envVars, histVars, mergeVars, probeVars, engineVars, keyVars, netVars, debounceVars, loginVars, sessionVars>>

BgSelectLater(d) ==
    /\ bgPc[d] = "get" /\ bgRemote[d].status = 200
    /\ bgRemote[d] # FetchVault(d) /\ GetVault.version > bgRemote[d].version
    /\ bgRemote' = [bgRemote EXCEPT ![d] =
          [blob |-> GetVault.blob, version |-> GetVault.version,
           wrapped |-> GetVault.wrapped, status |-> 200]]
    /\ UNCHANGED <<accounts, baseSnapshot, syncStatus, lastVersion, dek, cache, timer,
                   syncPc, remote, bgPc>>
    /\ UNCHANGED <<serverVars, envVars, histVars, mergeVars, probeVars, engineVars, keyVars, netVars, debounceVars, loginVars, sessionVars>>

\* the rotating client: an ordinary write, then rotate-key with the stored
\* version, the right old LAK and a blob under its new key
RotatorPut ==
    /\ ivs[Rotator] = 0
    /\ ClientPut(Rotator)
    /\ tx'[<<Rotator, 1>>].version = vault.version

RotatorRotate ==
    /\ ClientRotate(Rotator)
    /\ tx'[<<Rotator, 1>>].version = vault.version
    /\ tx'[<<Rotator, 1>>].oldLak = usr.hash

RotatorSteps ==
    \/ RotatorPut \/ RotatorRotate \/ ClientReceive(Rotator)
    \/ PutSelect(<<Rotator, 1>>) \/ PutUpdate(<<Rotator, 1>>)
    \/ RotateVerify(<<Rotator, 1>>) \/ RotateSelect(<<Rotator, 1>>)
    \/ RotateCommit(<<Rotator, 1>>)

StaleSteps ==
    \/ addAccount(Stale) \/ TimerFire(Stale)
    \/ PutSelect(<<Stale, 1>>) \/ PutUpdate(<<Stale, 1>>)
    \/ PutResponse(<<Stale, 1>>) \/ ConflictResponse(<<Stale, 1>>)
    \/ GetSelectLater(<<Stale, 1>>)
    \/ BackgroundSync(Stale) \/ BgSelectLater(Stale) \/ BackgroundResponse(Stale)

NextRekey == RotatorSteps \/ StaleSteps

SpecRekey == InitAll /\ [][NextRekey]_vars

\* a remote answer that carries a blob the device's key does not decrypt
Undecryptable(d, rem) ==
    /\ rem.status = 200 /\ rem.blob # NoBlob
    /\ ~DecryptOk(parseEncryptedPayload(rem.blob), dek[d])

\* the step in which handleConflict takes such an answer on device d: after
\* a 412, or in a background pull that found a newer version
DecryptFails(d) ==
    \/ /\ syncPc[<<d, 1>>] = "conflict" /\ syncPc'[<<d, 1>>] = "idle"
       /\ Undecryptable(d, remote[<<d, 1>>])
    \/ /\ bgPc[d] = "get" /\ bgPc'[d] = "idle"
       /\ Undecryptable(d, bgRemote[d])
       /\ cache[d].present /\ bgRemote[d].version > cache[d].version

---------------------------------------------------------------------------
(* Claims about the locked vault (SpecSolo) *)

\* C14: while the vault is locked (no DEK) a local mutation leaves
\* vaultState.accounts, the cache and syncStatus as they were, and no step of
\* sync, merge or save writes the cache
C14_LockedMutationAborts ==
    [][dek[Solo] = NoKey =>
          /\ clock' # clock => /\ accounts'[Solo] = accounts[Solo]
                               /\ syncStatus'[Solo] = syncStatus[Solo]
          /\ cache'[Solo] = cache[Solo]]_vars

---------------------------------------------------------------------------
(* One device with the whole session life cycle: auto-lock and its pause,
   unlock with any password, an unreadable cache blob, logout (SpecLock) *)

\* the cached blob is damaged: it no longer authenticates under any key
Corrupt(d) ==
    /\ cache[d].present /\ cache[d].blob # NoBlob
    /\ cache[d].blob.iv = cache[d].blob.ct.iv
    /\ cache' = [cache EXCEPT ![d] = [@ EXCEPT !.blob = [@ EXCEPT !.iv = 0]]]
    /\ UNCHANGED <<accounts, baseSnapshot, syncStatus, lastVersion, dek, timer,
                   syncPc, remote, bgPc, bgRemote>>
    /\ UNCHANGED <<serverVars, envVars, histVars, mergeVars, probeVars, engineVars, keyVars, netVars, debounceVars, loginVars, sessionVars>>

LockEvents ==
    \/ IdleTimeout(Solo) \/ Hidden(Solo) \/ ManualLock(Solo)
    \/ pauseAutoLock(Solo) \/ resumeAutoLock(Solo)

LockSession ==
    \/ \E pw \in Passwords : Unlock(Solo, pw)
    \/ LoadVault(Solo)
    \/ Logout(Solo)
    \/ Corrupt(Solo)

\* the pages that mutate are shown to a signed-in user only
SignedIn(d) == params[d].present

NextLock == SoloSync \/ LockEvents \/ LockSession

\* the idle period elapses without activity, and the document gets hidden,
\* again and again; timers fire and requests are answered; the file picker
\* may be cancelled, which runs no handler, so nothing promises
\* resumeAutoLock
SpecLock ==
    /\ InitAll /\ [][NextLock]_vars
    /\ WF_vars(IdleTimeout(Solo)) /\ WF_vars(Hidden(Solo))
    /\ WF_vars(SoloSync) /\ WF_vars(LoadVault(Solo))

\* C15: from every unlocked state the idle timer or the hidden document
\* eventually clears the DEK and sets isUnlocked to false
C15_AutoLockClears ==
    (isUnlocked[Solo] \/ dek[Solo] # NoKey)
        ~> (dek[Solo] = NoKey /\ ~isUnlocked[Solo])

\* the step in which loadVault, entered with a DEK, fails to decrypt the
\* cached blob on device d
LoadFails(d) ==
    /\ unlockPc[d] = "load" /\ unlockPc'[d] = "idle"
    /\ dek[d] # NoKey
    /\ cache[d].present /\ cache[d].blob # NoBlob
    /\ ~DecryptOk(parseEncryptedPayload(cache[d].blob), dek[d])

\* C16: an unlock attempt installs a key only if that key decrypts the cached
\* blob, and leaves the engine locked otherwise; when loadVault's decryption
\* fails after the crypto unlock, the engine is locked again
C16_BadKeyNeverStays ==
    [][/\ (dek[Solo] = NoKey /\ dek'[Solo] # NoKey) =>
             /\ cache[Solo].present /\ cache[Solo].blob # NoBlob
             /\ DecryptOk(parseEncryptedPayload(cache[Solo].blob), dek'[Solo])
       /\ (dek[Solo] = NoKey /\ unlockPc[Solo] = "idle" /\ unlockPc'[Solo] = "idle")
             => (dek'[Solo] = NoKey /\ ~isUnlocked'[Solo])
       /\ LoadFails(Solo) => (dek'[Solo] = NoKey /\ ~isUnlocked'[Solo])]_vars

\* one device that mutates, syncs, locks, unlocks and logs out (SpecLogout)
NextLogout ==
    \/ SignedIn(Solo) /\ SoloMutations
    \/ SoloSync \/ SoloLock
    \/ Logout(Solo)

SpecLogout == InitAll /\ [][NextLogout]_vars

\* the signed-out device: logout has cleared the auth params, no login since
SignedOut(d) == ~params[d].present

\* C17: after logout the cache holds neither the vault record nor the auth
\* params, whatever request, merge or timer from before the logout settles
C17_LogoutErasesCache == SignedOut(Solo) => ~cache[Solo].present

---------------------------------------------------------------------------
(* The unauthenticated lookups: GET auth-params and GET recover (SpecProbe) *)

MaxProbes == 2

BETTER_AUTH_SECRET == "secret"

\* kdfIterations: 600000 in both fake answers
FakeIterations == 600000

\* the email parameter as sent: a name, in lower or upper case, with or
\* without surrounding blanks; NoEmail is the missing parameter
EmailNames == {"a", "b", "c"}
RawEmails == [name : EmailNames, upper : BOOLEAN, padded : BOOLEAN]
NoEmail == [name |-> "", upper |-> FALSE, padded |-> FALSE]

\* the lookup keyed by the parameter as sent
normalizeNot(raw) == raw

\* rawEmail.trim().toLowerCase()
normalize(raw) == [raw EXCEPT !.upper = FALSE, !.padded = FALSE]

\* createHmac("sha256", secret).update(email + label).digest(...)
Hmac(secret, email, label) == <<secret, email, label>>

UserRows(email) == {u \in userTable : u.email = email.name /\ ~email.upper /\ ~email.padded}
UserRow(email) == CHOOSE u \in UserRows(email) : TRUE

\* GET /api/auth-params?email=
authParams(raw) ==
    IF raw = NoEmail THEN [status |-> 400, body |-> [error |-> "Email is required"]]
    ELSE LET email == normalize(raw) IN
         IF UserRows(email) # {}
         THEN [status |-> 200,
               body |-> [loginSalt |-> UserRow(email).loginSalt,
                         dataSalt |-> UserRow(email).dataSalt,
                         kdfIterations |-> UserRow(email).kdfIterations]]
         ELSE [status |-> 200,
               body |-> [loginSalt |-> Hmac(BETTER_AUTH_SECRET, email, "login_salt"),
                         dataSalt |-> Hmac(BETTER_AUTH_SECRET, email, "data_salt"),
                         kdfIterations |-> FakeIterations]]

\* GET recover?email=
recover(raw) ==
    IF raw = NoEmail THEN [status |-> 400, body |-> [error |-> "Email is required"]]
    ELSE LET email == normalize(raw) IN
         IF UserRows(email) # {}
         THEN IF ~UserRow(email).hasVault
              THEN [status |-> 404, body |-> [error |-> "Vault not found"]]
              ELSE [status |-> 200,
                    body |-> [encryptedBlob |-> <<"blob", UserRow(email).email>>,
                              encryptedDekByRecoveryKey |-> <<"wrapped", UserRow(email).email>>,
                              dataSalt |-> UserRow(email).dataSalt,
                              kdfIterations |-> UserRow(email).kdfIterations]]
         ELSE LET fakeIv == Hmac(BETTER_AUTH_SECRET, email, "fake_iv")
                  fakeCt == Hmac(BETTER_AUTH_SECRET, email, "fake_ct")
              IN [status |-> 200,
                  body |-> [encryptedBlob |-> <<1, fakeIv, fakeCt>>,
                            encryptedDekByRecoveryKey |-> <<1, fakeIv, fakeCt>>,
                            dataSalt |-> Hmac(BETTER_AUTH_SECRET, email, "data_salt"),
                            kdfIterations |-> FakeIterations]]

ProbeFrame == UNCHANGED <<serverVars, deviceVars, envVars, histVars, mergeVars,
                          sessionVars, engineVars, keyVars, netVars, debounceVars, loginVars>>

\* a lookup is answered
Lookup(endpoint, raw) ==
    /\ Len(answers) < MaxProbes
    /\ answers' = Append(answers,
          [endpoint |-> endpoint, raw |-> raw,
           known |-> raw # NoEmail /\ UserRows(normalize(raw)) # {},
           rows |-> Cardinality(userTable),
           answer |-> IF endpoint = "auth-params" THEN authParams(raw)
                      ELSE recover(raw)])
    /\ UNCHANGED userTable
    /\ ProbeFrame

\* somebody registers: a new row, its vault row following with the first PUT
Register(name, salt, iterations, hasVault) ==
    /\ \A u \in userTable : u.email # name
    /\ userTable' = userTable \cup
          {[email |-> name, loginSalt |-> salt, dataSalt |-> salt,
            kdfIterations |-> iterations, hasVault |-> hasVault]}
    /\ UNCHANGED answers
    /\ ProbeFrame

NextProbe ==
    \/ \E endpoint \in {"auth-params", "recover"}, raw \in RawEmails \cup {NoEmail} :
          Lookup(endpoint, raw)
    \/ \E name \in EmailNames \ {"c"}, salt \in {2, 3}, iterations \in {600000, 100000},
          hasVault \in BOOLEAN : Register(name, salt, iterations, hasVault)

SpecProbe == InitAll /\ [][NextProbe]_vars

\* the answers given for an email without a user, and for a user with a vault
Unknown(i) == answers[i].raw # NoEmail /\ ~answers[i].known
Existing(i) == answers[i].known /\ answers[i].answer.status = 200

\* C18: a lookup for an email without a user is answered 200 with the fields
\* an existing user's answer has, and two such lookups of the same endpoint
\* whose emails differ only in case and surrounding blanks get the same body,
\* whatever was registered in between
C18_FakeAnswerStable ==
    \A i \in DOMAIN answers :
        Unknown(i) =>
            /\ answers[i].answer.status = 200
            /\ DOMAIN answers[i].answer.body =
                  IF answers[i].endpoint = "auth-params"
                  THEN {"loginSalt", "dataSalt", "kdfIterations"}
                  ELSE {"encryptedBlob", "encryptedDekByRecoveryKey", "dataSalt",
                        "kdfIterations"}
            /\ \A j \in DOMAIN answers :
                  /\ Existing(j) /\ answers[j].endpoint = answers[i].endpoint
                        => DOMAIN answers[j].answer.body = DOMAIN answers[i].answer.body
                  /\ (/\ Unknown(j) /\ answers[j].endpoint = answers[i].endpoint
                      /\ answers[j].raw.name = answers[i].raw.name)
                        => answers[j].answer.body = answers[i].answer.body

\* the same unknown address was looked up twice, written differently, and
\* somebody else registered in between
C18_Witness ==
    /\ Len(answers) = 2
    /\ Unknown(1) /\ Unknown(2)
    /\ answers[1].endpoint = answers[2].endpoint
    /\ answers[1].raw # answers[2].raw
    /\ answers[1].raw.name = answers[2].raw.name
    /\ answers[1].rows < answers[2].rows

---------------------------------------------------------------------------
(* Claims about recovery-reset and rotate-key (SpecStore) *)

\* the step in which a request of the given kind gets its answer
Answers(r, kind) == tx[r].kind = kind /\ tx[r].pc # "done" /\ tx'[r].pc = "done"

\* salts, hash, blob and wrapped DEK are those of the request
Replaced(t) ==
    /\ usr' = [loginSalt |-> t.secret, dataSalt |-> t.secret, hash |-> t.secret]
    /\ vault'.blob = t.blob /\ vault'.wrapped = t.wrapped

\* C19: a recovery-reset answered 200 has replaced salts, hash, blob and
\* wrapped DEK together, raised the stored version by 1 and left no session;
\* one answered otherwise has changed none of them
C19_ResetAllOrNothing ==
    [][\A r \in Reqs : Answers(r, "reset") =>
          IF tx'[r].status = 200
          THEN /\ Replaced(tx[r])
               /\ vault'.version = vault.version + 1
               /\ sessions' = {}
          ELSE UNCHANGED <<usr, vault, sessions>>]_vars

\* C20: a rotate-key answered otherwise than 200 has changed nothing; one
\* answered 200 has replaced salts, hash, blob and wrapped DEK, raised the
\* stored version by 1 and deleted every session but the caller's
C20_RotateAllOrNothing ==
    [][\A r \in Reqs : Answers(r, "rotate") =>
          IF tx'[r].status = 200
          THEN /\ Replaced(tx[r])
               /\ vault'.version = vault.version + 1
               /\ sessions' = sessions \cap {Dev(r)}
          ELSE UNCHANGED <<usr, vault, sessions>>]_vars

---------------------------------------------------------------------------
(* The crypto engine on its own (SpecEngine): strings are sequences of
   UTF-16 code units, buffers are sequences of bytes, Base64 text is a
   sequence of one-character strings *)

\* code units the inputs are made of: "[", "a", e-acute, a high and a low
\* surrogate (together U+1F600), the byte order mark, the replacement character
CodeUnits == {91, 97, 233, 55357, 56832, 65279, 65533}

IsHigh(u) == u >= 55296 /\ u <= 56319
IsLow(u) == u >= 56320 /\ u <= 57343

\* TextEncoder: the string as scalar values; a surrogate without its partner
\* becomes U+FFFD
RECURSIVE ScalarValues(_)
ScalarValues(str) ==
    IF str = <<>> THEN <<>>
    ELSE IF IsHigh(str[1]) /\ Len(str) >= 2 /\ IsLow(str[2])
         THEN <<65536 + (str[1] - 55296) * 1024 + (str[2] - 56320)>>
                  \o ScalarValues(SubSeq(str, 3, Len(str)))
         ELSE IF IsHigh(str[1]) \/ IsLow(str[1])
              THEN <<65533>> \o ScalarValues(Tail(str))
              ELSE <<str[1]>> \o ScalarValues(Tail(str))

\* the UTF-8 bytes of one scalar value
Utf8(cp) ==
    IF cp < 128 THEN <<cp>>
    ELSE IF cp < 2048 THEN <<192 + (cp \div 64), 128 + (cp % 64)>>
    ELSE IF cp < 65536
         THEN <<224 + (cp \div 4096), 128 + ((cp \div 64) % 64), 128 + (cp % 64)>>
         ELSE <<240 + (cp \div 262144), 128 + ((cp \div 4096) % 64),
                128 + ((cp \div 64) % 64), 128 + (cp % 64)>>

RECURSIVE Utf8All(_)
Utf8All(cps) == IF cps = <<>> THEN <<>> ELSE Utf8(cps[1]) \o Utf8All(Tail(cps))

\* stringToBuffer: new TextEncoder().encode(str)
stringToBuffer(str) == Utf8All(ScalarValues(str))

IsCont(buf, i) == i <= Len(buf) /\ buf[i] >= 128 /\ buf[i] < 192

\* the UTF-8 decoder: scalar values of a byte sequence, U+FFFD for a byte
\* that starts no well-formed sequence
RECURSIVE Utf8Decode(_)
Utf8Decode(buf) ==
    IF buf = <<>> THEN <<>>
    ELSE LET b == buf[1]
             rest(n) == Utf8Decode(SubSeq(buf, n + 1, Len(buf)))
         IN  IF b < 128 THEN <<b>> \o rest(1)
             ELSE IF b >= 194 /\ b < 224 /\ IsCont(buf, 2)
                  THEN <<(b - 192) * 64 + (buf[2] - 128)>> \o rest(2)
             ELSE IF b >= 224 /\ b < 240 /\ IsCont(buf, 2) /\ IsCont(buf, 3)
                  THEN <<(b - 224) * 4096 + (buf[2] - 128) * 64 + (buf[3] - 128)>>
                           \o rest(3)
             ELSE IF b >= 240 /\ b < 245 /\ IsCont(buf, 2) /\ IsCont(buf, 3)
                     /\ IsCont(buf, 4)
                  THEN <<(b - 240) * 262144 + (buf[2] - 128) * 4096
                           + (buf[3] - 128) * 64 + (buf[4] - 128)>> \o rest(4)
             ELSE <<65533>> \o rest(1)

\* scalar values as UTF-16 code units
RECURSIVE CodeUnitsOf(_)
CodeUnitsOf(cps) ==
    IF cps = <<>> THEN <<>>
    ELSE IF cps[1] >= 65536
         THEN <<55296 + ((cps[1] - 65536) \div 1024), 56320 + ((cps[1] - 65536) % 1024)>>
                  \o CodeUnitsOf(Tail(cps))
         ELSE <<cps[1]>> \o CodeUnitsOf(Tail(cps))

\* new TextDecoder() has ignoreBOM = false: a leading U+FEFF is not output
StripBOM(cps) == IF cps # <<>> /\ cps[1] = 65279 THEN Tail(cps) ELSE cps

\* bufferToString: new TextDecoder().decode(buffer)
bufferToString(buf) == CodeUnitsOf(StripBOM(Utf8Decode(buf)))

\* the Base64 alphabet of btoa/atob; "=" pads
Alphabet ==
    <<"A", "B", "C", "D", "E", "F", "G", "H", "I", "J", "K", "L", "M", "N", "O", "P",
      "Q", "R", "S", "T", "U", "V", "W", "X", "Y", "Z", "a", "b", "c", "d", "e", "f",
      "g", "h", "i", "j", "k", "l", "m", "n", "o", "p", "q", "r", "s", "t", "u", "v",
      "w", "x", "y", "z", "0", "1", "2", "3", "4", "5", "6", "7", "8", "9", "+", "/">>

Sextet(n) == Alphabet[n + 1]
SextetOf(ch) == (CHOOSE i \in 1..64 : Alphabet[i] = ch) - 1
IsSextet(ch) == \E i \in 1..64 : Alphabet[i] = ch

\* bufferToBase64: btoa of the bytes, three bytes to four characters
RECURSIVE bufferToBase64(_)
bufferToBase64(buf) ==
    IF buf = <<>> THEN <<>>
    ELSE IF Len(buf) = 1
         THEN <<Sextet(buf[1] \div 4), Sextet((buf[1] % 4) * 16), "=", "=">>
    ELSE IF Len(buf) = 2
         THEN <<Sextet(buf[1] \div 4),
                Sextet((buf[1] % 4) * 16 + (buf[2] \div 16)),
                Sextet((buf[2] % 16) * 4), "=">>
    ELSE <<Sextet(buf[1] \div 4),
           Sextet((buf[1] % 4) * 16 + (buf[2] \div 16)),
           Sextet((buf[2] % 16) * 4 + (buf[3] \div 64)),
           Sextet(buf[3] % 64)>> \o bufferToBase64(SubSeq(buf, 4, Len(buf)))

\* atob removes one or two trailing "=" of a text whose length is a multiple of 4
Unpadded(text) ==
    IF Len(text) % 4 = 0 /\ Len(text) >= 2 /\ text[Len(text)] = "="
    THEN IF text[Len(text) - 1] = "="
         THEN SubSeq(text, 1, Len(text) - 2)
         ELSE SubSeq(text, 1, Len(text) - 1)
    ELSE text

\* atob accepts the text: only alphabet characters are left, and not one
\* character more than a multiple of four
AtobAccepts(text) ==
    LET t == Unpadded(text)
    IN  Len(t) % 4 # 1 /\ \A i \in 1..Len(t) : IsSextet(t[i])

\* the bytes of sextets; the bits left over at the end (4 of 12, 2 of 18)
\* are discarded unexamined
RECURSIVE SextetBytes(_)
SextetBytes(t) ==
    IF Len(t) < 2 THEN <<>>
    ELSE LET a == SextetOf(t[1])
             b == SextetOf(t[2])
         IN  IF Len(t) = 2 THEN <<a * 4 + (b \div 16)>>
             ELSE LET c == SextetOf(t[3])
                  IN  IF Len(t) = 3
                      THEN <<a * 4 + (b \div 16), (b % 16) * 16 + (c \div 4)>>
                      ELSE <<a * 4 + (b \div 16), (b % 16) * 16 + (c \div 4),
                             (c % 4) * 64 + SextetOf(t[4])>>
                               \o SextetBytes(SubSeq(t, 5, Len(t)))

\* base64ToBuffer: atob and the char codes (only called where atob accepts)
base64ToBuffer(text) == SextetBytes(Unpadded(text))

IV_LENGTH == 12

\* crypto.getRandomValues(new Uint8Array(IV_LENGTH)): the n-th draw
RandomIv(n) == [i \in 1..IV_LENGTH |-> (n * 37 + i * 11) % 256]

AES_TAG_LENGTH == 128

\* AES-GCM idealised: the body is the plaintext under a keystream of key and
\* iv; the tag of AES_TAG_LENGTH bits authenticates key, iv and body: tags
\* of two keys or two ivs differ, and so do the tags of two bodies that
\* differ in one byte or in two neighbouring bytes
Keystream(key, iv, i) == (key.id * 16 + iv[1] + i) % 256
GcmBody(key, iv, pt) == [i \in 1..Len(pt) |-> (pt[i] + Keystream(key, iv, i)) % 256]
KeyBytes(key) == [i \in 1..4 |-> (key.id * 53 + i * 7) % 256]

RECURSIVE ByteSum(_, _)
ByteSum(body, weighted) ==
    IF body = <<>> THEN 0
    ELSE (ByteSum(SubSeq(body, 1, Len(body) - 1), weighted)
            + body[Len(body)] * (IF weighted THEN Len(body) ELSE 1)) % 256

GcmTag(key, iv, body) ==
    LET base == KeyBytes(key) \o iv
    IN  [j \in 1..(AES_TAG_LENGTH \div 8) |->
            (base[((j - 1) % Len(base)) + 1] + ByteSum(body, j % 2 = 0)) % 256]

\* crypto.subtle.encrypt({name: AES-GCM, iv, tagLength}, key, data)
subtleEncrypt(key, iv, pt) ==
    LET body == GcmBody(key, iv, pt) IN body \o GcmTag(key, iv, body)

\* the part of a ciphertext that is body
BodyLen(ct) == Len(ct) - (AES_TAG_LENGTH \div 8)

\* a decrypt that does not verify the tag
subtleDecryptOkAlways(key, iv, ct) ==
    "decrypt" \in key.usages /\ Len(ct) >= AES_TAG_LENGTH \div 8

\* crypto.subtle.decrypt does not throw: the key may decrypt and the tag matches
subtleDecryptOk(key, iv, ct) ==
    /\ "decrypt" \in key.usages
    /\ Len(ct) >= AES_TAG_LENGTH \div 8 /\ iv # <<>>
    /\ SubSeq(ct, BodyLen(ct) + 1, Len(ct)) = GcmTag(key, iv, SubSeq(ct, 1, BodyLen(ct)))

subtleDecrypt(key, iv, ct) ==
    [i \in 1..BodyLen(ct) |-> (ct[i] + 256 - Keystream(key, iv, i)) % 256]

DecryptionFailed == "Decryption failed. Invalid key or corrupted data."
RecoveryUnwrapFailed == "Recovery key decryption failed."

\* encryptVault(data, dek) with the iv it draws
encryptVaultText(data, key, iv) ==
    [iv |-> bufferToBase64(iv),
     ct |-> bufferToBase64(subtleEncrypt(key, iv, stringToBuffer(data)))]

\* the try block of decryptVault and decryptKeyForRecovery runs through
Decodes(payload, key) ==
    /\ AtobAccepts(payload.iv) /\ AtobAccepts(payload.ct)
    /\ subtleDecryptOk(key, base64ToBuffer(payload.iv), base64ToBuffer(payload.ct))

DecodedBytes(payload, key) ==
    subtleDecrypt(key, base64ToBuffer(payload.iv), base64ToBuffer(payload.ct))

\* decryptVault(payload, dek): the string, or the one generic error
decryptVaultText(payload, key) ==
    IF Decodes(payload, key)
    THEN [status |-> "ok", value |-> bufferToString(DecodedBytes(payload, key)),
          error |-> ""]
    ELSE [status |-> "error", value |-> <<>>, error |-> DecryptionFailed]

\* encryptKeyForRecovery(rawKeyData, rek) with the iv it draws
encryptKeyForRecovery(raw, rek, iv) ==
    [iv |-> bufferToBase64(iv), ct |-> bufferToBase64(subtleEncrypt(rek, iv, raw))]

\* escrow unwrapping done by the vault's decrypt function
decryptKeyAsVault(payload, rek) == decryptVaultText(payload, rek)

\* decryptKeyForRecovery(payload, rek): the bytes, or its own error
decryptKeyForRecovery(payload, rek) ==
    IF Decodes(payload, rek)
    THEN [status |-> "ok", value |-> DecodedBytes(payload, rek), error |-> ""]
    ELSE [status |-> "error", value |-> <<>>, error |-> RecoveryUnwrapFailed]

\* `v=1;iv=${payload.iv};ct=${payload.ct}`
BlobString(payload) ==
    <<"v", "=", "1", ";", "i", "v", "=">> \o payload.iv
        \o <<";", "c", "t", "=">> \o payload.ct

\* text.split(sep)
RECURSIVE split(_, _)
split(text, sep) ==
    IF \A i \in 1..Len(text) : text[i] # sep THEN <<text>>
    ELSE LET k == CHOOSE i \in 1..Len(text) :
                      text[i] = sep /\ \A j \in 1..(i - 1) : text[j] # sep
         IN  <<SubSeq(text, 1, k - 1)>> \o split(SubSeq(text, k + 1, Len(text)), sep)

startsWith(text, prefix) ==
    Len(text) >= Len(prefix) /\ SubSeq(text, 1, Len(prefix)) = prefix

\* parts.find(p => p.startsWith(prefix)), <<>> standing for undefined
find(parts, prefix) ==
    IF \E i \in 1..Len(parts) : startsWith(parts[i], prefix)
    THEN parts[CHOOSE i \in 1..Len(parts) :
                   /\ startsWith(parts[i], prefix)
                   /\ \A j \in 1..(i - 1) : ~startsWith(parts[j], prefix)]
    ELSE <<>>

\* text.replace(pat, ""): the first occurrence of pat is removed
replace(text, pat) ==
    LET At(i) == i + Len(pat) - 1 <= Len(text) /\ SubSeq(text, i, i + Len(pat) - 1) = pat
    IN  IF \E i \in 1..Len(text) : At(i)
        THEN LET k == CHOOSE i \in 1..Len(text) : At(i) /\ \A j \in 1..(i - 1) : ~At(j)
             IN  SubSeq(text, 1, k - 1) \o SubSeq(text, k + Len(pat), Len(text))
        ELSE text

\* parseEncryptedPayload(blob) on the blob's characters
parseBlobString(blob) ==
    LET parts == split(blob, ";")
        ivPart == find(parts, <<"i", "v", "=">>)
        ctPart == find(parts, <<"c", "t", "=">>)
    IN  IF ivPart = <<>> \/ ctPart = <<>>
        THEN [status |-> "error", iv |-> <<>>, ct |-> <<>>]
        ELSE [status |-> "ok", iv |-> replace(ivPart, <<"i", "v", "=">>),
              ct |-> replace(ctPart, <<"c", "t", "=">>)]

MaxLen == 2
MaxIv == 2

\* strings of at most n code units
RECURSIVE SeqsUpTo(_, _)
SeqsUpTo(S, n) ==
    IF n = 0 THEN {<<>>}
    ELSE SeqsUpTo(S, n - 1)
             \cup {Append(q, x) : q \in {r \in SeqsUpTo(S, n - 1) : Len(r) = n - 1}, x \in S}

Plaintexts == SeqsUpTo(CodeUnits, MaxLen)

\* raw key bytes handed to encryptKeyForRecovery
RawKeys == SeqsUpTo({0, 65, 255}, MaxLen)

\* importDEK(rawKey): decrypt only, never extractable
importDEK(id) == [id |-> id, extractable |-> FALSE, usages |-> {"decrypt"}]

\* deriveREK(recoveryKey, dataSalt, iterations): extractable
deriveREK(recoveryKey, salt) == deriveDEKKey(recoveryKey, salt, TRUE)

\* a DEK as unlock derives it, a REK as deriveREK derives it from recovery
\* secret 2; recovery secret 3 is another draw of generateRecoveryKey
EncryptKeys == {deriveDEKKey(MasterPassword, 1, FALSE), deriveREK(2, 1)}
DecryptKeys == EncryptKeys \cup {deriveREK(3, 1), importDEK(deriveDEK(MasterPassword, 1))}

InitEngine ==
    /\ InitServer /\ InitDevices /\ InitEnv /\ InitHist /\ InitMergeOff
    /\ InitSession /\ InitProbe /\ InitKeys /\ InitNet /\ InitDebounce /\ InitLogin
    /\ eKind \in {"vault", "escrow"}
    /\ eData \in (IF eKind = "vault" THEN Plaintexts ELSE RawKeys)
    /\ eKey \in EncryptKeys
    /\ ePayload = NoPayload /\ eOut = NoOut
    /\ eSealed = NoPayload /\ eOpener = NoCryptoKey
    /\ ePc = "in"

EngineFrame == UNCHANGED <<serverVars, deviceVars, envVars, histVars, mergeVars,
                           sessionVars, probeVars, keyVars, netVars, debounceVars, loginVars>>

\* encryptVault / encryptKeyForRecovery is called and draws its iv
Seal(n) ==
    /\ ePc = "in"
    /\ ePayload' = IF eKind = "vault"
                   THEN encryptVaultText(eData, eKey, RandomIv(n))
                   ELSE encryptKeyForRecovery(eData, eKey, RandomIv(n))
    /\ eSealed' = ePayload'
    /\ ePc' = "sealed"
    /\ UNCHANGED <<eKind, eData, eKey, eOut, eOpener>>
    /\ EngineFrame

\* the payload is written as blob text and read back with parseEncryptedPayload
StoreAndParse ==
    /\ ePc = "sealed"
    /\ LET parsed == parseBlobString(BlobString(ePayload))
       IN  IF parsed.status = "ok"
           THEN /\ ePayload' = [iv |-> parsed.iv, ct |-> parsed.ct]
                /\ ePc' = "stored"
                /\ UNCHANGED eOut
           ELSE /\ eOut' = [status |-> "error", value |-> <<>>,
                            error |-> "Invalid encrypted payload format"]
                /\ ePc' = "opened"
                /\ UNCHANGED ePayload
    /\ UNCHANGED <<eKind, eData, eKey, eSealed, eOpener>>
    /\ EngineFrame

TamperChars == {"A", "B", "="}

\* one character of the stored iv or ct is replaced
Tamper(field, i, ch) ==
    /\ ePc \in {"sealed", "stored"}
    /\ i \in 1..Len(ePayload[field]) /\ ePayload[field][i] # ch
    /\ ePayload' = [ePayload EXCEPT ![field] = [@ EXCEPT ![i] = ch]]
    /\ ePc' = "tampered"
    /\ UNCHANGED <<eKind, eData, eKey, eOut, eSealed, eOpener>>
    /\ EngineFrame

\* decryptVault / decryptKeyForRecovery is called with some key
Open(k) ==
    /\ ePc \in {"sealed", "stored", "tampered"}
    /\ eOut' = IF eKind = "vault"
               THEN decryptVaultText(ePayload, k)
               ELSE decryptKeyForRecovery(ePayload, k)
    /\ eOpener' = k
    /\ ePc' = "opened"
    /\ UNCHANGED <<eKind, eData, eKey, ePayload, eSealed>>
    /\ EngineFrame

NextEngine ==
    \/ \E n \in 1..MaxIv : Seal(n)
    \/ StoreAndParse
    \/ \E field \in {"iv", "ct"}, i \in 1..(4 * (AES_TAG_LENGTH \div 8 + MaxLen * 3)), ch \in TamperChars :
           Tamper(field, i, ch)
    \/ \E k \in DecryptKeys : Open(k)

SpecEngine == InitEngine /\ [][NextEngine]_vars

\* the call decrypted, with the key of the encryption, the payload as the
\* encryption returned it
Untouched == ePc = "opened" /\ eOut.status # "none" /\ ePayload = eSealed
                /\ eOpener.id = eKey.id /\ "decrypt" \in eOpener.usages

\* C21: decryptVault(encryptVault(P, K), K) returns P for every plaintext
\* and key, and the blob text built from a payload parses back to the same
\* iv and ct
C21_VaultRoundTrip ==
    /\ (eKind = "vault" /\ Untouched) => eOut.status = "ok" /\ eOut.value = eData
    /\ (eKind = "vault" /\ ePc = "stored") => ePayload = eSealed

\* the bytes a Base64 text stands for, <<256>> (no byte) when atob rejects it
BytesOf(text) == IF AtobAccepts(text) THEN base64ToBuffer(text) ELSE <<256>>

\* the decrypt call was given another key, nonce or ciphertext than the
\* encryption used or produced
Differs ==
    \/ eOpener.id # eKey.id
    \/ BytesOf(ePayload.iv) # BytesOf(eSealed.iv)
    \/ BytesOf(ePayload.ct) # BytesOf(eSealed.ct)

Decrypted == ePc = "opened" /\ eOpener # NoCryptoKey

\* the payload handed to the decrypt call is not the one the encryption
\* returned, or the key is another
DiffersAsGiven ==
    \/ eOpener.id # eKey.id
    \/ ePayload.iv # eSealed.iv
    \/ ePayload.ct # eSealed.ct

\* C22 as stated: decryptVault returns no plaintext for a payload whose key,
\* nonce or ciphertext differs from those of the encryption; it fails with
\* the one generic error
C22_AnyChangeFails ==
    (eKind = "vault" /\ Decrypted /\ DiffersAsGiven) =>
        /\ eOut.status = "error" /\ eOut.value = <<>>
        /\ eOut.error = DecryptionFailed

\* C22 amended: decryptVault, given a key, nonce bytes or ciphertext bytes
\* other than those of the encryption, returns no plaintext: it fails, with
\* the one generic error whichever of them differs
C22_TamperFailsGeneric ==
    (eKind = "vault" /\ Decrypted /\ Differs) =>
        /\ eOut.status = "error" /\ eOut.value = <<>>
        /\ eOut.error = DecryptionFailed

C22_Witness ==
    /\ eKind = "vault" /\ Decrypted /\ eOpener.id = eKey.id
    /\ ePayload.iv = eSealed.iv /\ ePayload.ct # eSealed.ct
    /\ BytesOf(ePayload.ct) # <<256>>
    /\ eData # <<>> /\ eOut.error = DecryptionFailed

\* C23: decryptKeyForRecovery(encryptKeyForRecovery(R, REK), REK) equals R
\* for every raw key and REK, and unwrapping with a REK derived from another
\* recovery secret fails with the recovery-unwrap error, which is not the
\* vault decryption error
C23_EscrowRoundTrip ==
    /\ (eKind = "escrow" /\ Untouched) => eOut.status = "ok" /\ eOut.value = eData
    /\ (eKind = "escrow" /\ Decrypted /\ eOpener.id # eKey.id) =>
           /\ eOut.status = "error"
           /\ eOut.error = RecoveryUnwrapFailed /\ eOut.error # DecryptionFailed

C23_Witness ==
    /\ eKind = "escrow" /\ Decrypted /\ Len(eData) = MaxLen
    /\ eKey = deriveREK(2, 1) /\ eOpener = deriveREK(3, 1)
    /\ ePayload = eSealed /\ eOut.error = RecoveryUnwrapFailed

\* ---------------------------------------------------------------------------
\* Exportability of the data key
\* ---------------------------------------------------------------------------

\* crypto.subtle.exportKey("raw", key): the raw bytes of an extractable key,
\* InvalidAccessError for any other
exportKey(key, installed, explicit) ==
    IF key.extractable
    THEN [status |-> "ok", raw |-> key.id, installed |-> installed,
          explicit |-> explicit, returned |-> FALSE]
    ELSE [status |-> "error", raw |-> 0, installed |-> installed,
          explicit |-> explicit, returned |-> FALSE]

\* the key object held by the engine of device d
InstalledKey(d) == DerivedKey(dek[d], dekExtractable[d])

\* any code that holds the unlocked engine asks the platform for the raw
\* bytes of cryptoState.dek
ExportInstalled(d) ==
    /\ dek[d] # NoKey
    /\ exportOut' = exportKey(InstalledKey(d), TRUE, FALSE)
    /\ UNCHANGED <<serverVars, deviceVars, envVars, histVars, mergeVars, sessionVars,
                   probeVars, engineVars, dekExtractable, netVars, debounceVars, loginVars>>

\* handleRegenerateKey(), up to its export: a second key is derived from the
\* password typed into the form, with extractable = true, verified against
\* the cached blob and exported for the new escrow
handleRegenerateKey(d, pw) ==
    /\ ivs[d] < MaxReq
    /\ params[d].present /\ cache[d].present /\ cache[d].blob # NoBlob
    /\ Verifies(d, pw)
    /\ exportOut' = exportKey(deriveDEKKey(pw, params[d].dataSalt, TRUE), FALSE, TRUE)
    /\ UNCHANGED <<serverVars, deviceVars, envVars, histVars, mergeVars, sessionVars,
                   probeVars, engineVars, dekExtractable, netVars, debounceVars, loginVars>>

\* handleRegenerateKey() from its export to its return: wrap the raw bytes
\* under the new REK, PUT the cached blob with the new escrow under the last
\* known version, and on a 200 answer store the new version and escrow; a
\* refused PUT throws into the catch.  No statement on either path writes to
\* the buffer exportKey returned
RegenerateReturns(d) ==
    /\ exportOut.status = "ok" /\ exportOut.explicit /\ ~exportOut.returned
    /\ exportOut' = [exportOut EXCEPT !.returned = TRUE]
    /\ ivs' = [ivs EXCEPT ![d] = @ + 1]
    /\ LET r == <<d, 1>>
           t == [NoTx EXCEPT !.kind = "put", !.version = lastVersion[d],
                             !.blob = cache[d].blob,
                             !.wrapped = Token(d, ivs[d] + 1)]
       IN IF d \in sessions /\ cache[d].present /\ vault.exists /\ PutVersionMatches(t)
          THEN /\ vault' = [vault EXCEPT !.blob = t.blob, !.version = PutNewVersion(t),
                                         !.wrapped = t.wrapped]
               /\ accepted' = Append(accepted, Write(r, t, vault'.version))
               /\ NoteStore(vault')
               /\ cache' = [cache EXCEPT ![d] =
                     [present |-> TRUE, blob |-> t.blob, version |-> vault'.version,
                      wrapped |-> t.wrapped]]
               /\ lastVersion' = [lastVersion EXCEPT ![d] = vault'.version]
          ELSE UNCHANGED <<vault, accepted, everTomb, cache, lastVersion>>
    /\ UNCHANGED <<usr, sessions, userLock, tx, conflicts, clock, fails, pulls>>
    /\ UNCHANGED <<accounts, baseSnapshot, syncStatus, dek, timer, syncPc, remote,
                   bgPc, bgRemote>>
    /\ UNCHANGED <<mergeVars, sessionVars, probeVars, engineVars, dekExtractable,
                   netVars, debounceVars, loginVars>>

NextKeys ==
    \/ NextLock
    \/ ExportInstalled(Solo)
    \/ \E pw \in Passwords : handleRegenerateKey(Solo, pw)

SpecKeys == InitAll /\ [][NextKeys]_vars

\* C24: deriveDEK hands out an exportable key only to a caller that passed
\* extractable = true; the key unlock() installs as cryptoState.dek is never
\* exportable, so every export of the installed key is refused and every
\* export that succeeded was of a key derived with the explicit flag
C24_InstalledKeyNotExportable ==
    /\ \A d \in Devices : dek[d] # NoKey => ~dekExtractable[d]
    /\ exportOut.status = "ok" => (exportOut.explicit /\ ~exportOut.installed)
    /\ (exportOut.status # "none" /\ exportOut.installed) => exportOut.status = "error"

\* unlock() has just installed a key and an export of it was refused
C24_Witness ==
    /\ unlockPc[Solo] = "load" /\ dek[Solo] # NoKey
    /\ exportOut.status = "error" /\ exportOut.installed

\* ---------------------------------------------------------------------------
\* What an accepted push leaves on the device
\* ---------------------------------------------------------------------------

\* sync() takes a 200 answer to the PUT of request r in this step
PushAccepted(r) ==
    /\ syncPc[r] = "put" /\ tx[r].pc = "done" /\ tx[r].status = 200
    /\ tx'[r] = NoTx /\ fails' = fails

\* C25: when a push is accepted the device takes the version the store
\* returned as lastVersion and takes as baseSnapshot exactly the record set
\* whose ciphertext that push sent, whatever local mutations arrived while
\* the request was in flight
C25_SnapshotIsWhatWasSent ==
    [][\A r \in Reqs : PushAccepted(r) =>
          /\ lastVersion'[Dev(r)] = tx[r].retVersion
          /\ baseSnapshot'[Dev(r)] = DataOf(tx[r].blob)]_vars

\* ---------------------------------------------------------------------------
\* One device on a slow network: a request may still be outstanding when the
\* debounce timer fires again
\* ---------------------------------------------------------------------------

InitSlow == InitProgram /\ slowNet = TRUE /\ netDown = FALSE /\ InitDebounce /\ InitLogin

SlowSync ==
    \/ TimerFire(Solo)
    \/ \E k \in Slots : \/ PutSelect(<<Solo, k>>) \/ PutUpdate(<<Solo, k>>)
                        \/ PutResponse(<<Solo, k>>) \/ ConflictResponse(<<Solo, k>>)

NextSlow == SoloMutations \/ SlowSync

SpecSlow == InitSlow /\ [][NextSlow]_vars

\* the PUTs of device d that sync() has sent and whose answer it has not
\* taken yet
PutsInFlight(d) == {r \in Reqs : Dev(r) = d /\ syncPc[r] = "put"}

\* C26: a device has at most one vault PUT in flight: a sync triggered while
\* an earlier sync's request is outstanding sends no second PUT before the
\* first has settled, also when a local mutation arrived in between
C26_OnePutInFlight == \A d \in Devices : Cardinality(PutsInFlight(d)) <= 1

\* ---------------------------------------------------------------------------
\* Push answers that arrive late
\* ---------------------------------------------------------------------------

\* the device's version moved on (by a later push or a merge) after the PUT
\* of request r was sent with it
Overtaken(r) == lastVersion[Dev(r)] # tx[r].version

\* C27: an accepted push whose answer is handled after a later push or merge
\* advanced the device leaves lastVersion, baseSnapshot and the cache as that
\* later operation left them; lastVersion never decreases while the vault
\* stays unlocked
C27_LateAnswerChangesNothing ==
    [][/\ \A r \in Reqs : (PushAccepted(r) /\ Overtaken(r)) =>
              /\ lastVersion'[Dev(r)] = lastVersion[Dev(r)]
              /\ baseSnapshot'[Dev(r)] = baseSnapshot[Dev(r)]
              /\ cache'[Dev(r)] = cache[Dev(r)]
       /\ \A d \in Devices : (dek[d] # NoKey /\ dek'[d] # NoKey) =>
              lastVersion'[d] >= lastVersion[d]]_vars

\* ---------------------------------------------------------------------------
\* debounce(sync, 2000) with time
\* ---------------------------------------------------------------------------

\* const debouncedSync = debounce(sync, 2000)
delay == 2000

\* the grain of time: half the delay, so that calls fall inside and outside
\* the window
TickMs == delay \div 2

\* how far time and the calls go
MaxTicks == 6
MaxCalls == 4

\* clearTimeout left out
clearTimeoutNot(pending, id) == pending

\* clearTimeout(timeoutId): the timeout with that id, if pending, is dropped
clearTimeout(pending, id) == {t \in pending : t.id # id}

\* setTimeout(callback, delay): a fresh id, due delay ms from now
setTimeout(pending, id, at) == pending \cup {[id |-> id, at |-> at]}

\* a timeout that is due runs before anything else happens
Due == {t \in dbPending : t.at <= dbNow}

DebounceFrame == UNCHANGED <<serverVars, deviceVars, envVars, histVars, mergeVars,
                             sessionVars, probeVars, engineVars, keyVars, netVars, loginVars>>

\* the closure debounce returns, called by saveVault and backgroundSync
debouncedSync ==
    /\ Len(dbCalls) < MaxCalls /\ Due = {}
    /\ LET id == Len(dbCalls) + 1
       IN /\ dbPending' = setTimeout(clearTimeout(dbPending, dbTimeoutId), id,
                                     dbNow + delay)
          /\ dbTimeoutId' = id
    /\ dbCalls' = Append(dbCalls, dbNow)
    /\ UNCHANGED <<dbNow, dbFired>>
    /\ DebounceFrame

\* the timeout's callback: void fn(...args)
TimeoutFires ==
    /\ \E t \in Due : dbPending' = dbPending \ {t}
    /\ dbFired' = Append(dbFired, dbNow)
    /\ UNCHANGED <<dbNow, dbTimeoutId, dbCalls>>
    /\ DebounceFrame

Tick ==
    /\ Due = {} /\ dbNow < MaxTicks * TickMs
    /\ dbNow' = dbNow + TickMs
    /\ UNCHANGED <<dbTimeoutId, dbPending, dbCalls, dbFired>>
    /\ DebounceFrame

NextDebounce == debouncedSync \/ TimeoutFires \/ Tick

SpecDebounce == InitAll /\ [][NextDebounce]_vars

\* call i is the last of its burst: the next call, if any, comes a full
\* delay or more after it
LastOfBurst(i) == i = Len(dbCalls) \/ dbCalls[i + 1] - dbCalls[i] >= delay

\* the bursts whose last call is at index i or before
BurstsUpTo(i) == Cardinality({j \in 1..i : LastOfBurst(j)})

\* C28: calls that each come less than the delay after the previous one
\* start exactly one sync, one delay after the last of them; a call inside
\* the window cancels the pending timeout and re-arms it, so no second
\* timeout is ever pending
C28_DebounceCoalesces ==
    /\ Cardinality(dbPending) <= 1
    /\ Len(dbFired) + Cardinality(dbPending) = BurstsUpTo(Len(dbCalls))
    /\ \A i \in DOMAIN dbCalls :
          LastOfBurst(i) =>
             IF BurstsUpTo(i) <= Len(dbFired)
             THEN dbFired[BurstsUpTo(i)] = dbCalls[i] + delay
             ELSE dbPending = {[id |-> i, at |-> dbCalls[i] + delay]}

\* three calls, the second and third inside the window of the one before,
\* have started one sync
C28_Witness ==
    /\ Len(dbCalls) = 3
    /\ dbCalls[2] - dbCalls[1] = TickMs /\ dbCalls[3] - dbCalls[2] = TickMs
    /\ dbFired = <<dbCalls[3] + delay>> /\ dbPending = {}

\* ---------------------------------------------------------------------------
\* What handleConflict installs
\* ---------------------------------------------------------------------------

\* handleConflict of device d, called by sync() or by backgroundSync(), gets
\* past the decryption of the remote vault rem in this step
ConflictMerges(d, rem) ==
    /\ rem.status = 200 /\ rem.blob # NoBlob
    /\ dek[d] # NoKey /\ remoteDecrypts(d, rem)
    /\ \/ \E r \in Reqs : Dev(r) = d /\ rem = remote[r] /\ ConflictResponse(r)
       \/ /\ rem = bgRemote[d] /\ BackgroundResponse(d)
          /\ cache[d].present /\ rem.version > cache[d].version

\* the step put the remote ciphertext into the cache, pushed nothing and left
\* the status idle
AdoptsRemote(d, rem) ==
    /\ cache'[d].blob = rem.blob
    /\ syncStatus'[d] = "idle"
    /\ timer'[d] = timer[d]

\* the step re-encrypted the merged set into the cache and scheduled a push
PushesMerged(d) ==
    /\ DataOf(cache'[d].blob) = accounts'[d]
    /\ cache'[d].blob.iv = Token(d, ivs'[d])
    /\ syncStatus'[d] = "dirty"
    /\ timer'[d]

\* C29: when handleConflict adopts the remote ciphertext without pushing, the
\* merged record set it installed in memory equals the decrypted remote
\* record set; in every other case it re-encrypts the merged set and
\* schedules a push
C29_AdoptedEqualsRemote ==
    [][\A d \in Devices : \A rem \in {remote[r] : r \in Reqs} \cup {bgRemote[d]} :
          ConflictMerges(d, rem) =>
             IF AdoptsRemote(d, rem)
             THEN SetOf(accounts'[d]) = SetOf(DataOf(rem.blob))
             ELSE PushesMerged(d)]_vars

\* ---------------------------------------------------------------------------
\* Logging in again on a device that holds unpushed changes
\* ---------------------------------------------------------------------------

\* the server session of device d ends (expiry, or revocation elsewhere);
\* nothing on the device changes
SessionExpires(d) ==
    /\ d \in sessions /\ params[d].present
    /\ sessions' = sessions \ {d}
    /\ UNCHANGED <<vault, usr, userLock, tx>>
    /\ UNCHANGED <<deviceVars, envVars, histVars, mergeVars, probeVars, engineVars,
                   keyVars, netVars, debounceVars, loginVars, sessionVars>>

\* the ids of device d the store has not accepted: in memory and in the
\* cache, with the status dirty
Unaccepted(d) ==
    IF cache[d].present /\ cache[d].blob # NoBlob /\ syncStatus[d] = "dirty"
    THEN (IdsOf(accounts[d]) \cap IdsOf(DataOf(cache[d].blob))) \ IdsOf(StoreData)
    ELSE {}

\* handleLogin(), reached with the vault locked and no session: sign in with
\* the LAK (a wrong password throws before anything is written), store the
\* auth params, GET /api/vault and write its answer over the cache, then
\* unlock(passwordVal) up to loadVault
handleLogin(d, pw) ==
    /\ d \notin sessions /\ ~isUnlocked[d] /\ unlockPc[d] = "idle"
    /\ deriveLAK(pw, usr.loginSalt) = usr.hash
    /\ sessions' = sessions \cup {d}
    /\ params' = [params EXCEPT ![d] =
          [present |-> TRUE, loginSalt |-> usr.loginSalt, dataSalt |-> usr.dataSalt]]
    /\ cache' = [cache EXCEPT ![d] =
          [present |-> TRUE, blob |-> GetVault.blob, version |-> GetVault.version,
           wrapped |-> GetVault.wrapped]]
    /\ relogin' = [relogin EXCEPT ![d] = [done |-> TRUE, ids |-> Unaccepted(d)]]
    /\ IF GetVault.blob # NoBlob
          /\ ~DecryptOk(parseEncryptedPayload(GetVault.blob),
                        deriveDEKDefault(pw, usr.dataSalt).id)
       THEN UNCHANGED <<dek, dekExtractable, isUnlocked, listening, lockTimeout,
                        unlockPc>>
       ELSE /\ dek' = [dek EXCEPT ![d] = deriveDEKDefault(pw, usr.dataSalt).id]
            /\ dekExtractable' = [dekExtractable EXCEPT ![d] =
                   deriveDEKDefault(pw, usr.dataSalt).extractable]
            /\ isUnlocked' = [isUnlocked EXCEPT ![d] = TRUE]
            /\ listening' = [listening EXCEPT ![d] = TRUE]
            /\ lockTimeout' = [lockTimeout EXCEPT ![d] = ~lockPaused[d]]
            /\ unlockPc' = [unlockPc EXCEPT ![d] = "load"]
    /\ UNCHANGED <<accounts, baseSnapshot, syncStatus, lastVersion, timer, syncPc,
                   remote, bgPc, bgRemote>>
    /\ UNCHANGED <<vault, usr, userLock, tx, envVars, histVars, mergeVars, probeVars,
                   engineVars, exportOut, netVars, debounceVars>>
    /\ UNCHANGED <<lockPaused, completed, undecrypted>>

\* one device: it adds records, pushes, is locked by hand, loses its session
\* and logs in again
NextRelogin ==
    \/ SignedIn(Solo) /\ addAccount(Solo)
    \/ TimerFire(Solo) \/ BackgroundResponse(Solo)
    \/ PutSelect(SoloReq) \/ PutUpdate(SoloReq) \/ PutResponse(SoloReq)
    \/ ManualLock(Solo)
    \/ LoadVault(Solo)
    \/ SessionExpires(Solo)
    \/ \E pw \in Passwords : handleLogin(Solo, pw)

SpecRelogin == InitAll /\ [][NextRelogin]_vars

\* C30: changes the store has not accepted (in the device's record set and
\* cache, status dirty) are not discarded by logging in again: once the user
\* has logged in on the same device and the vault is open, those records are
\* in the device's record set
C30_ReloginKeepsUnaccepted ==
    \A d \in Devices :
        (relogin[d].done /\ Opened(d)) => relogin[d].ids \subseteq IdsOf(accounts[d])

\* ---------------------------------------------------------------------------
\* What logout() leaves in memory
\* ---------------------------------------------------------------------------

\* logout() of device d runs in this step (nothing else clears the auth params)
LogsOut(d) == params[d].present /\ ~params'[d].present

\* C31: after logout() completes, from every reachable state, the DEK is
\* null, isUnlocked is false, and the vault store holds accounts = [],
\* baseSnapshot = [], lastVersion = 0 and syncStatus = idle
C31_LogoutResetsMemory ==
    [][\A d \in Devices : LogsOut(d) =>
          /\ dek'[d] = NoKey /\ ~isUnlocked'[d]
          /\ accounts'[d] = <<>> /\ baseSnapshot'[d] = <<>>
          /\ lastVersion'[d] = 0 /\ syncStatus'[d] = "idle"]_vars

\* ---------------------------------------------------------------------------
\* The raw DEK exported for the escrow
\* ---------------------------------------------------------------------------

\* the settings page over the crypto store: the recovery key is regenerated
\* while the vault gets locked and unlocked and the session may end
NextEscrow ==
    \/ ManualLock(Solo) \/ LockSession
    \/ SessionExpires(Solo)
    \/ \E pw \in Passwords : handleRegenerateKey(Solo, pw)
    \/ RegenerateReturns(Solo)

SpecEscrow == InitAll /\ [][NextEscrow]_vars

\* C32: the raw DEK bytes exported for recovery wrapping are overwritten
\* before the operation that exported them returns, on the success path and
\* on every failure path
C32_RawDekWiped ==
    (exportOut.status = "ok" /\ exportOut.returned) => exportOut.raw = 0

---------------------------------------------------------------------------
(* A new device: signed in on the login page, no vault in its cache yet
   (SpecBoot) *)

Fresh == 1
Owner == 2
FreshReq == <<Fresh, 1>>
OwnerReq == <<Owner, 1>>

\* the store either has no vault row yet (registration has created the user
\* and not yet the row) or the row of the registration, which the owner's
\* device has loaded; the fresh device has the auth params of its login and
\* neither a cached vault nor a key
InitBoot ==
    /\ \/ /\ vault = [exists |-> FALSE, version |-> 0, blob |-> NoBlob, wrapped |-> 0]
          /\ lastVersion = [d \in Devices |-> 0]
          /\ dek = [d \in Devices |-> NoKey]
          /\ isUnlocked = [d \in Devices |-> FALSE]
          /\ cache = [d \in Devices |->
                        [present |-> FALSE, blob |-> NoBlob, version |-> 0, wrapped |-> 0]]
       \/ /\ vault = [exists |-> TRUE, version |-> 1, blob |-> InitBlob, wrapped |-> 1]
          /\ lastVersion = [d \in Devices |-> IF d = Owner THEN 1 ELSE 0]
          /\ dek = [d \in Devices |-> IF d = Owner THEN InitKey ELSE NoKey]
          /\ isUnlocked = [d \in Devices |-> d = Owner]
          /\ cache = [d \in Devices |->
                        IF d = Owner
                        THEN [present |-> TRUE, blob |-> InitBlob, version |-> 1,
                              wrapped |-> 1]
                        ELSE [present |-> FALSE, blob |-> NoBlob, version |-> 0,
                              wrapped |-> 0]]
    /\ usr = [loginSalt |-> 1, dataSalt |-> 1, hash |-> 1]
    /\ sessions = Devices
    /\ userLock = NoReq
    /\ tx = [r \in Reqs |-> NoTx]
    /\ accounts = [d \in Devices |-> <<>>]
    /\ baseSnapshot = [d \in Devices |-> <<>>]
    /\ syncStatus = [d \in Devices |-> "idle"]
    /\ timer = [d \in Devices |-> FALSE]
    /\ syncPc = [r \in Reqs |-> "idle"]
    /\ remote = [r \in Reqs |-> NoRemote]
    /\ bgPc = [d \in Devices |-> "idle"]
    /\ bgRemote = [d \in Devices |-> NoRemote]
    /\ lockPaused = [d \in Devices |-> FALSE]
    /\ lockTimeout = isUnlocked
    /\ listening = isUnlocked
    /\ params = [d \in Devices |-> [present |-> TRUE, loginSalt |-> 1, dataSalt |-> 1]]
    /\ unlockPc = [d \in Devices |-> "idle"]
    /\ completed = [d \in Devices |-> {}]
    /\ undecrypted = {}
    /\ InitEnv /\ InitHist /\ InitMergeOff /\ InitProbe /\ InitEngineOff /\ InitKeys
    /\ InitNet /\ InitDebounce /\ InitLogin

\* the network goes down between the sign-in of unlock() and the fetch of
\* loadVault() (once: the background syncs are counted up to MaxPull)
Disconnect ==
    /\ ~netDown /\ unlockPc[Fresh] = "load"
    /\ pulls < MaxPull
    /\ netDown' = TRUE
    /\ UNCHANGED <<slowNet, serverVars, deviceVars, envVars, histVars, mergeVars,
                   sessionVars, probeVars, engineVars, keyVars, debounceVars, loginVars>>

\* connectivity returns: the "online" listener starts backgroundSync() when
\* the vault is unlocked
Reconnect(d) ==
    /\ netDown
    /\ netDown' = FALSE
    /\ IF isUnlocked[d] /\ dek[d] # NoKey /\ bgPc[d] = "idle" /\ pulls < MaxPull
       THEN /\ pulls' = pulls + 1
            /\ bgPc' = [bgPc EXCEPT ![d] = "get"]
            /\ bgRemote' = [bgRemote EXCEPT ![d] = FetchVault(d)]
       ELSE UNCHANGED <<pulls, bgPc, bgRemote>>
    /\ UNCHANGED <<accounts, baseSnapshot, syncStatus, lastVersion, dek, cache,
                   timer, syncPc, remote>>
    /\ UNCHANGED <<slowNet, serverVars, ivs, clock, fails, histVars, mergeVars,
                   sessionVars, probeVars, engineVars, keyVars, debounceVars, loginVars>>

\* the owner's device fills the store before the fresh device is unlocked
OwnerWrites ==
    /\ ~isUnlocked[Fresh] /\ vault.exists
    /\ \/ addAccount(Owner)
       \/ \E id \in 1..MaxClock : deleteAccount(Owner, id)
       \/ TimerFire(Owner)
       \/ PutSelect(OwnerReq) \/ PutUpdate(OwnerReq) \/ PutResponse(OwnerReq)

\* what the fresh device does by itself once the unlock form is submitted
FreshSteps ==
    \/ LoadVault(Fresh)
    \/ TimerFire(Fresh)
    \/ ~netDown /\ (PutSelect(FreshReq) \/ PutUpdate(FreshReq))
    \/ netDown /\ NetFail(FreshReq)
    \/ PutResponse(FreshReq) \/ ConflictResponse(FreshReq)
    \/ BackgroundResponse(Fresh)
    \/ Reconnect(Fresh)

NextBoot ==
    \/ OwnerWrites
    \/ \E pw \in Passwords : Unlock(Fresh, pw)
    \/ Disconnect
    \/ FreshSteps

\* timers fire, requests are answered and the network comes back
SpecBoot == InitBoot /\ [][NextBoot]_vars /\ WF_vars(FreshSteps)

\* loadVault() runs on the fresh device with nothing to fetch
BootsEmpty ==
    /\ unlockPc[Fresh] = "load" /\ unlockPc'[Fresh] = "idle"
    /\ dek[Fresh] # NoKey /\ ~cache[Fresh].present
    /\ netDown \/ GetVault.blob = NoBlob

\* the fresh device holds the store's records at the store's version
BootReconciled ==
    /\ accounts[Fresh] = DataOf(vault.blob)
    /\ lastVersion[Fresh] = vault.version

\* C33: on a device without a cached vault, loadVault() ends with the empty
\* record set and lastVersion 0 when the store has no blob or cannot be
\* reached; and once the network is up again, the device comes to hold the
\* store's records at the store's version
C33_BootstrapReconciles ==
    /\ [][BootsEmpty => accounts'[Fresh] = <<>> /\ lastVersion'[Fresh] = 0]_vars
    /\ (Opened(Fresh) /\ ~netDown /\ vault.exists) ~> BootReconciled

\* the first half alone: holds
BootLoadEndsEmpty ==
    [][BootsEmpty => accounts'[Fresh] = <<>> /\ lastVersion'[Fresh] = 0]_vars

\* the second half for the records without deletedAt: holds
BootLiveRecordsReconciled ==
    (Opened(Fresh) /\ ~netDown /\ vault.exists) ~>
        (/\ SelectSeq(accounts[Fresh], LAMBDA a : a.deletedAt = 0)
              = SelectSeq(DataOf(vault.blob), LAMBDA a : a.deletedAt = 0)
         /\ lastVersion[Fresh] = vault.version)

---------------------------------------------------------------------------
(* syncStatus *)

\* sync() takes a 412 answer to its PUT
PushRejected(r) ==
    /\ syncPc[r] = "put" /\ tx[r].pc = "done" /\ tx[r].status = 412
    /\ tx'[r] = NoTx /\ fails' = fails

\* the changes of syncStatus the state diagram has
StatusEdges ==
    {<<"idle", "dirty">>, <<"dirty", "syncing">>, <<"syncing", "idle">>,
     <<"syncing", "conflict">>, <<"syncing", "dirty">>, <<"conflict", "idle">>}

\* C34: a push rejected for a version mismatch sets syncStatus to conflict,
\* conflict is followed by idle once the merge has succeeded, and syncStatus
\* changes only along idle -> dirty -> syncing -> {idle, conflict, dirty}
\* and conflict -> idle
C34_StatusDiagram ==
    /\ [][\A r \in Reqs : PushRejected(r) => syncStatus'[Dev(r)] = "conflict"]_vars
    /\ [][\A d \in Devices : syncStatus'[d] # syncStatus[d] =>
              <<syncStatus[d], syncStatus'[d]>> \in StatusEdges]_vars
    /\ \A d \in Devices : (syncStatus[d] = "conflict") ~> (syncStatus[d] = "idle")

\* the diagram's edges alone
StatusAlongEdges ==
    [][\A d \in Devices : syncStatus'[d] # syncStatus[d] =>
          <<syncStatus[d], syncStatus'[d]>> \in StatusEdges]_vars

\* no state has syncStatus conflict
StatusNeverConflict == \A d \in Devices : syncStatus[d] # "conflict"

\* an invocation of sync() returns
SyncReturns(r) == syncPc[r] # "idle" /\ syncPc'[r] = "idle"

\* C35: when an invocation of sync() that set syncStatus to syncing returns,
\* syncStatus is idle or dirty, whatever the path: push accepted, push
\* rejected and merged, network or server error, remote blob empty, vault
\* locked while the request was in flight
C35_SyncLeavesSyncing ==
    [][\A r \in Reqs : SyncReturns(r) =>
          syncStatus'[Dev(r)] \in {"idle", "dirty"}]_vars

---------------------------------------------------------------------------
(* mergeVault: tombstones, ids, the two sides *)

\* the ids with deletedAt set in s
TombIds(s) == {s[i].id : i \in {j \in DOMAIN s : s[j].deletedAt # NoTime}}

\* C36: every record that carries deletedAt in local or in remote is in the
\* merged result under its id with deletedAt set, also when base does not
\* have the id
C36_TombstonesKept ==
    mPc = "out" => (TombIds(mLocal) \cup TombIds(mRemote)) \subseteq TombIds(mOut)

\* the same for the ids base has
TombstonesOfBaseKept ==
    mPc = "out" =>
        ((TombIds(mLocal) \cup TombIds(mRemote)) \cap IdsOf(mBase)) \subseteq TombIds(mOut)

\* the local mutation of the step deletes record id of device d
Deletes(d, id) ==
    Mutates(d) /\ id \in LiveIds(accounts[d]) /\ id \notin LiveIds(accounts'[d])

\* C37: deleteAccount on an existing id keeps the record in the array and sets
\* its deletedAt and updatedAt; no local mutation takes a record out of the
\* array or changes the id or createdAt of a record that was in it
C37_MutationsKeepRecords ==
    [][\A d \in Devices :
          /\ \A id \in 1..MaxClock :
                Deletes(d, id) =>
                    /\ MapHas(accounts'[d], id)
                    /\ MapGet(accounts'[d], id).deletedAt = clock'
                    /\ MapGet(accounts'[d], id).updatedAt = clock'
          /\ Mutates(d) =>
                /\ Len(accounts'[d]) >= Len(accounts[d])
                /\ \A i \in DOMAIN accounts[d] :
                      /\ accounts'[d][i].id = accounts[d][i].id
                      /\ accounts'[d][i].createdAt = accounts[d][i].createdAt]_vars

\* a device has just deleted a record it had
C37_Witness ==
    \E d \in Devices : \E i \in DOMAIN accounts[d] :
        /\ accounts[d][i].deletedAt = clock /\ accounts[d][i].updatedAt = clock
        /\ accounts[d][i].createdAt < clock
        /\ syncStatus[d] = "dirty" /\ Len(accounts[d]) >= 2

\* at most one record per id
UniqueIds(s) == \A i, j \in DOMAIN s : s[i].id = s[j].id => i = j

\* a device with its mutations, syncs, locks and loads, or mergeVault applied
\* to given sets of records with unique ids
InitIds == InitAll \/ InitMerge

NextIds ==
    \/ mPc = "off" /\ NextSolo
    \/ Merge

SpecIds == InitIds /\ [][NextIds]_vars

\* C38: the array in memory holds at most one record per id after any
\* sequence of add, update, delete, load and merge, and so does every result
\* of mergeVault for inputs with unique ids
C38_IdsUnique ==
    /\ \A d \in Devices : UniqueIds(accounts[d])
    /\ (mPc = "out" /\ UniqueIds(mBase) /\ UniqueIds(mLocal) /\ UniqueIds(mRemote))
          => UniqueIds(mOut)

\* the device holds two records, one of them deleted, after a merge and a
\* later load
C38_Witness ==
    /\ conflicts[Solo] >= 1 /\ Opened(Solo)
    /\ Len(accounts[Solo]) >= 2 /\ TombIds(accounts[Solo]) # {}

\* mergeVault has merged sets that share an id
MergedSharedId ==
    /\ mPc = "out" /\ Len(mOut) = 2
    /\ IdsOf(mBase) \cap IdsOf(mLocal) \cap IdsOf(mRemote) # {}

---------------------------------------------------------------------------
(* cryptoState *)

\* C39: isUnlocked is true exactly when cryptoState.dek is non-null, across
\* unlock, lock, auto-lock, pauseAutoLock/resumeAutoLock and unlock attempts
\* that fail
C39_UnlockedIffKey == \A d \in Devices : isUnlocked[d] <=> dek[d] # NoKey

\* the vault was locked and unlocked again, and auto-lock is paused with the
\* key installed
C39_Witness ==
    /\ isUnlocked[Solo] /\ dek[Solo] # NoKey
    /\ lockPaused[Solo] /\ ~lockTimeout[Solo] /\ unlockPc[Solo] = "load"

---------------------------------------------------------------------------
(* mergeVault with its two sides exchanged *)

\* C40: mergeVault(base, A, B) and mergeVault(base, B, A) are equal as sets of
\* records for every base, A and B, also when both sides carry equal updatedAt
\* or deletedAt values
C40_MergeSymmetric ==
    mPc = "out" => SetOf(mOut) = SetOf(mergeVault(mBase, mRemote, mLocal))

\* no id has the same updatedAt, or the same deletedAt, on both sides with
\* different records
NoTies ==
    \A id \in IdsOf(mLocal) \cap IdsOf(mRemote) :
        \/ MapGet(mLocal, id) = MapGet(mRemote, id)
        \/ /\ MapGet(mLocal, id).updatedAt # MapGet(mRemote, id).updatedAt
           /\ \/ MapGet(mLocal, id).deletedAt # MapGet(mRemote, id).deletedAt
              \/ MapGet(mLocal, id).deletedAt = NoTime

\* the same for sides that descend from base and have no ties
MergeSymmetricWithoutTies ==
    (mPc = "out" /\ NoTies /\ Descends(mBase, mLocal) /\ Descends(mBase, mRemote)
       /\ IdsOf(mBase) \subseteq (IdsOf(mLocal) \cap IdsOf(mRemote)))
        => SetOf(mOut) = SetOf(mergeVault(mBase, mRemote, mLocal))

---------------------------------------------------------------------------
(* One device mutating and pushing, nothing else (SpecMutate) *)

NextMutate ==
    \/ SoloMutations
    \/ TimerFire(Solo)
    \/ PutSelect(SoloReq) \/ PutUpdate(SoloReq) \/ PutResponse(SoloReq)

SpecMutate == InitAll /\ [][NextMutate]_vars

=============================================================================
